---- MODULE Spec2Model ----
(***************************************************************************)
(* A model of the Deciphenator decryptor: the cipher library (ciphers.py)   *)
(* and the combination search engine with its persisted tested pairs       *)
(* (decryptor_app.py).                                                      *)
(*                                                                         *)
(* A Python str is modelled as a sequence of Unicode code points, so that   *)
(* ord() and chr() are the identity, 'a' <= char <= 'z' is 97..122 and      *)
(* every conversion (int(), str(), lower(), strip(), split(), title())     *)
(* is computed character by character.  The character domain of the model   *)
(* is ASCII plus the Latin-1 letters 201 and 233 (E-acute, e-acute) and 223  *)
(* (sharp s, whose upper() is the two letters 'SS'), which stand for the    *)
(* letters str.isalpha() accepts outside a-z and A-Z.                       *)
(***************************************************************************)
EXTENDS Integers, Sequences, FiniteSets, TLC

\* ======================= Python str and int primitives =======================

SetMin(S) == CHOOSE x \in S : \A y \in S : x <= y

SetMax(S) == CHOOSE x \in S : \A y \in S : x >= y

\* str.isspace() for one character (ASCII range)
IsSpace(c) == c \in {9, 10, 11, 12, 13, 28, 29, 30, 31, 32}

IsDigit(c) == c \in 48..57

\* 'a' <= char <= 'z'
IsLower(c) == c >= 97 /\ c <= 122

\* 'A' <= char <= 'Z'
IsUpper(c) == c >= 65 /\ c <= 90

\* str.isalpha() for one character of the model's domain
IsAlphaChar(c) == IsLower(c) \/ IsUpper(c) \/ c \in {201, 223, 233}

LowerChar(c) == IF IsUpper(c) \/ c = 201 THEN c + 32 ELSE c

UpperChar(c) == IF IsLower(c) \/ c = 233 THEN c - 32 ELSE c

str_lower(s) == [i \in 1..Len(s) |-> LowerChar(s[i])]

\* c.upper() for one character: sharp s becomes 'SS'
UpperStr(c) == IF c = 223 THEN <<83, 83>> ELSE <<UpperChar(c)>>

\* s.upper(): as long as s unless s holds a sharp s
str_upper(s) ==
  IF \A i \in 1..Len(s) : s[i] # 223 THEN [i \in 1..Len(s) |-> UpperChar(s[i])]
  ELSE LET RECURSIVE from(_)
           from(i) == IF i > Len(s) THEN <<>> ELSE UpperStr(s[i]) \o from(i + 1)
       IN  from(1)

\* s.isalpha(): non-empty and every character a letter
str_isalpha(s) == Len(s) > 0 /\ \A i \in 1..Len(s) : IsAlphaChar(s[i])

\* s.replace(c, '') for a one-character c
str_remove(s, c) == SelectSeq(s, LAMBDA x : x # c)

\* s.replace(c, r) for one-character c and r
str_replace(s, c, r) == [i \in 1..Len(s) |-> IF s[i] = c THEN r ELSE s[i]]

\* ''.join(s.split()): s without its whitespace
str_join_split(s) == SelectSeq(s, LAMBDA x : ~IsSpace(x))

\* s.strip()
str_strip(s) ==
  LET keep == {i \in 1..Len(s) : ~IsSpace(s[i])}
  IN  IF keep = {} THEN <<>> ELSE SubSeq(s, SetMin(keep), SetMax(keep))

\* s.rstrip()
str_rstrip(s) ==
  LET keep == {i \in 1..Len(s) : ~IsSpace(s[i])}
  IN  IF keep = {} THEN <<>> ELSE SubSeq(s, 1, SetMax(keep))

\* s.startswith(p)
str_startswith(s, p) == Len(s) >= Len(p) /\ SubSeq(s, 1, Len(p)) = p

\* s[::-1]
str_reverse(s) == [i \in 1..Len(s) |-> s[Len(s) + 1 - i]]

\* s.title(): a cased letter after an uncased character is upper-cased, one
\* after a cased letter is lower-cased
str_title(s) ==
  [i \in 1..Len(s) |->
     IF i > 1 /\ IsAlphaChar(s[i - 1]) THEN LowerChar(s[i]) ELSE UpperChar(s[i])]

\* the pieces of s between the characters of seps (re.split with a character
\* class): always at least one piece
RECURSIVE str_split(_, _)
str_split(s, seps) ==
  LET at == {i \in 1..Len(s) : s[i] \in seps}
  IN  IF at = {} THEN <<s>>
      ELSE LET k == SetMin(at)
           IN  <<SubSeq(s, 1, k - 1)>> \o str_split(SubSeq(s, k + 1, Len(s)), seps)

\* sep.join(parts)
str_join(sep, parts) ==
  LET n == Len(parts)
      RECURSIVE from(_)
      from(i) == IF i > n THEN <<>>
                 ELSE IF i = n THEN parts[i]
                 ELSE parts[i] \o sep \o from(i + 1)
  IN  from(1)

\* The digits-and-underscores body int() accepts: digits, single underscores
\* only between digits
IsIntBody(b) ==
  /\ Len(b) > 0
  /\ \A i \in 1..Len(b) : IsDigit(b[i]) \/ b[i] = 95
  /\ IsDigit(b[1]) /\ IsDigit(b[Len(b)])
  /\ \A i \in 1..(Len(b) - 1) : ~(b[i] = 95 /\ b[i + 1] = 95)

RECURSIVE DigitsValue(_, _)
DigitsValue(b, acc) ==
  IF Len(b) = 0 THEN acc
  ELSE IF b[1] = 95 THEN DigitsValue(Tail(b), acc)
  ELSE DigitsValue(Tail(b), 10 * acc + (b[1] - 48))

\* int() of a string t without surrounding whitespace: an optional sign, then
\* the body; ok = FALSE stands for ValueError
py_int_stripped(t) ==
  LET sgn  == Len(t) > 0 /\ t[1] \in {43, 45}
      body == IF sgn THEN Tail(t) ELSE t
  IN  IF IsIntBody(body)
      THEN [ok |-> TRUE,
            val |-> IF sgn /\ t[1] = 45 THEN 0 - DigitsValue(body, 0)
                    ELSE DigitsValue(body, 0)]
      ELSE [ok |-> FALSE, val |-> 0]

\* int(s): surrounding whitespace is ignored
py_int(s) == py_int_stripped(str_strip(s))

RECURSIVE NatToStr(_)
NatToStr(n) ==
  IF n < 10 THEN <<48 + n>> ELSE NatToStr(n \div 10) \o <<48 + (n % 10)>>

\* str(n), as f"{a}" formats an int
py_str(n) == IF n < 0 THEN <<45>> \o NatToStr(0 - n) ELSE NatToStr(n)

\* Python's a % b (the result takes the sign of b)
py_mod(a, b) == IF b > 0 THEN a % b ELSE 0 - ((0 - a) % (0 - b))

\* abs(a)
py_abs(a) == IF a < 0 THEN 0 - a ELSE a

\* ============================ string literals ============================
\* Each literal of the source, as its code points.


M_caesar == <<99, 97, 101, 115, 97, 114>>   \* 'caesar'

M_rot13 == <<114, 111, 116, 49, 51>>   \* 'rot13'

M_atbash == <<97, 116, 98, 97, 115, 104>>   \* 'atbash'

M_vigenere == <<118, 105, 103, 101, 110, 101, 114, 101>>   \* 'vigenere'

M_beaufort == <<98, 101, 97, 117, 102, 111, 114, 116>>   \* 'beaufort'

\* 'simple_substitution'
M_simple_substitution ==
  <<115, 105, 109, 112, 108, 101, 95, 115, 117, 98, 115, 116, 105, 116, 117, 116, 105, 111, 110>>

M_affine == <<97, 102, 102, 105, 110, 101>>   \* 'affine'

M_reverse == <<114, 101, 118, 101, 114, 115, 101>>   \* 'reverse'

\* 'columnar_transposition'
M_columnar_transposition ==
  <<99, 111, 108, 117, 109, 110, 97, 114, 95, 116, 114, 97, 110, 115, 112, 111, 115, 105, 116, 105, 111, 110>>

M_rail_fence == <<114, 97, 105, 108, 95, 102, 101, 110, 99, 101>>   \* 'rail_fence'

M_playfair == <<112, 108, 97, 121, 102, 97, 105, 114>>   \* 'playfair'

\* 'simplesubstitution'
N_simplesubstitution ==
  <<115, 105, 109, 112, 108, 101, 115, 117, 98, 115, 116, 105, 116, 117, 116, 105, 111, 110>>

\* 'substitution'
N_substitution ==
  <<115, 117, 98, 115, 116, 105, 116, 117, 116, 105, 111, 110>>

\* 'monoalphabetic'
N_monoalphabetic ==
  <<109, 111, 110, 111, 97, 108, 112, 104, 97, 98, 101, 116, 105, 99>>

\* 'columnartransposition'
N_columnartransposition ==
  <<99, 111, 108, 117, 109, 110, 97, 114, 116, 114, 97, 110, 115, 112, 111, 115, 105, 116, 105, 111, 110>>

N_columnar == <<99, 111, 108, 117, 109, 110, 97, 114>>   \* 'columnar'

N_railfence == <<114, 97, 105, 108, 102, 101, 110, 99, 101>>   \* 'railfence'

N_zigzag == <<122, 105, 103, 122, 97, 103>>   \* 'zigzag'

S_ErrorPrefix == <<69, 114, 114, 111, 114, 58, 32>>   \* 'Error: '

S_ErrorColon == <<69, 114, 114, 111, 114, 58>>   \* 'Error:'

\* 'Unexpected error: '
S_UnexpectedPrefix ==
  <<85, 110, 101, 120, 112, 101, 99, 116, 101, 100, 32, 101, 114, 114, 111, 114, 58, 32>>

\* 'Error: No ciphertext provided.'
S_NoCiphertext ==
  <<69, 114, 114, 111, 114, 58, 32, 78, 111, 32, 99, 105, 112, 104, 101, 114, 116, 101, 120, 116, 32, 112, 114, 111, 118, 105, 100, 101, 100, 46>>

\* ' cipher requires a keyword.'
S_RequiresKeyword ==
  <<32, 99, 105, 112, 104, 101, 114, 32, 114, 101, 113, 117, 105, 114, 101, 115, 32, 97, 32, 107, 101, 121, 119, 111, 114, 100, 46>>

\* "Error: Caesar cipher requires a numeric keyword, got '"
S_CaesarNumeric ==
  <<69, 114, 114, 111, 114, 58, 32, 67, 97, 101, 115, 97, 114, 32, 99, 105, 112, 104, 101, 114, 32, 114, 101, 113, 117, 105, 114, 101, 115, 32, 97, 32, 110, 117, 109, 101, 114, 105, 99, 32, 107, 101, 121, 119, 111, 114, 100, 44, 32, 103, 111, 116, 32, 39>>

S_QuoteDot == <<39, 46>>   \* "'."

S_Quote == <<39>>   \* "'"

\* "Error: Unknown cipher method '"
S_UnknownMethod ==
  <<69, 114, 114, 111, 114, 58, 32, 85, 110, 107, 110, 111, 119, 110, 32, 99, 105, 112, 104, 101, 114, 32, 109, 101, 116, 104, 111, 100, 32, 39>>

\* "'. Available ciphers: "
S_Available ==
  <<39, 46, 32, 65, 118, 97, 105, 108, 97, 98, 108, 101, 32, 99, 105, 112, 104, 101, 114, 115, 58, 32>>

S_CommaSpace == <<44, 32>>   \* ', '

\* "Vigenère cipher requires an alphabetic keyword, got '"
S_VigenereMsg ==
  <<86, 105, 103, 101, 110, 232, 114, 101, 32, 99, 105, 112, 104, 101, 114, 32, 114, 101, 113, 117, 105, 114, 101, 115, 32, 97, 110, 32, 97, 108, 112, 104, 97, 98, 101, 116, 105, 99, 32, 107, 101, 121, 119, 111, 114, 100, 44, 32, 103, 111, 116, 32, 39>>

\* "Beaufort cipher requires an alphabetic keyword, got '"
S_BeaufortMsg ==
  <<66, 101, 97, 117, 102, 111, 114, 116, 32, 99, 105, 112, 104, 101, 114, 32, 114, 101, 113, 117, 105, 114, 101, 115, 32, 97, 110, 32, 97, 108, 112, 104, 97, 98, 101, 116, 105, 99, 32, 107, 101, 121, 119, 111, 114, 100, 44, 32, 103, 111, 116, 32, 39>>

\* "Simple substitution requires a 26-letter alphabetic keyword, got '"
S_SubstitutionMsg ==
  <<83, 105, 109, 112, 108, 101, 32, 115, 117, 98, 115, 116, 105, 116, 117, 116, 105, 111, 110, 32, 114, 101, 113, 117, 105, 114, 101, 115, 32, 97, 32, 50, 54, 45, 108, 101, 116, 116, 101, 114, 32, 97, 108, 112, 104, 97, 98, 101, 116, 105, 99, 32, 107, 101, 121, 119, 111, 114, 100, 44, 32, 103, 111, 116, 32, 39>>

S_AffineCoprimeA == <<39, 97, 39, 32, 118, 97, 108, 117, 101, 32, 40>>   \* "'a' value ("

\* ') must be coprime to 26'
S_AffineCoprimeB ==
  <<41, 32, 109, 117, 115, 116, 32, 98, 101, 32, 99, 111, 112, 114, 105, 109, 101, 32, 116, 111, 32, 50, 54>>

\* "Affine cipher requires format 'a,b' with integers, got '"
S_AffineFormatMsg ==
  <<65, 102, 102, 105, 110, 101, 32, 99, 105, 112, 104, 101, 114, 32, 114, 101, 113, 117, 105, 114, 101, 115, 32, 102, 111, 114, 109, 97, 116, 32, 39, 97, 44, 98, 39, 32, 119, 105, 116, 104, 32, 105, 110, 116, 101, 103, 101, 114, 115, 44, 32, 103, 111, 116, 32, 39>>

\* "Columnar transposition requires an alphabetic keyword, got '"
S_ColumnarMsg ==
  <<67, 111, 108, 117, 109, 110, 97, 114, 32, 116, 114, 97, 110, 115, 112, 111, 115, 105, 116, 105, 111, 110, 32, 114, 101, 113, 117, 105, 114, 101, 115, 32, 97, 110, 32, 97, 108, 112, 104, 97, 98, 101, 116, 105, 99, 32, 107, 101, 121, 119, 111, 114, 100, 44, 32, 103, 111, 116, 32, 39>>

\* "Rail fence cipher requires a positive integer >= 2, got '"
S_RailFenceMsg ==
  <<82, 97, 105, 108, 32, 102, 101, 110, 99, 101, 32, 99, 105, 112, 104, 101, 114, 32, 114, 101, 113, 117, 105, 114, 101, 115, 32, 97, 32, 112, 111, 115, 105, 116, 105, 118, 101, 32, 105, 110, 116, 101, 103, 101, 114, 32, 62, 61, 32, 50, 44, 32, 103, 111, 116, 32, 39>>

\* "Playfair cipher requires an alphabetic keyword, got '"
S_PlayfairKeywordMsg ==
  <<80, 108, 97, 121, 102, 97, 105, 114, 32, 99, 105, 112, 104, 101, 114, 32, 114, 101, 113, 117, 105, 114, 101, 115, 32, 97, 110, 32, 97, 108, 112, 104, 97, 98, 101, 116, 105, 99, 32, 107, 101, 121, 119, 111, 114, 100, 44, 32, 103, 111, 116, 32, 39>>

\* 'Playfair cipher requires even-length text'
S_PlayfairEvenMsg ==
  <<80, 108, 97, 121, 102, 97, 105, 114, 32, 99, 105, 112, 104, 101, 114, 32, 114, 101, 113, 117, 105, 114, 101, 115, 32, 101, 118, 101, 110, 45, 108, 101, 110, 103, 116, 104, 32, 116, 101, 120, 116>>

\* 'ABCDEFGHIKLMNOPQRSTUVWXYZ'
S_PlayfairAlphabet ==
  <<65, 66, 67, 68, 69, 70, 71, 72, 73, 75, 76, 77, 78, 79, 80, 81, 82, 83, 84, 85, 86, 87, 88, 89, 90>>

S_NA == <<78, 47, 65>>   \* 'N/A'

\* 'Please enter both cipher text and keywords.'
S_PleaseEnter ==
  <<80, 108, 101, 97, 115, 101, 32, 101, 110, 116, 101, 114, 32, 98, 111, 116, 104, 32, 99, 105, 112, 104, 101, 114, 32, 116, 101, 120, 116, 32, 97, 110, 100, 32, 107, 101, 121, 119, 111, 114, 100, 115, 46>>


\* 'Modular inverse does not exist for '
S_ModInverseA ==
  <<77, 111, 100, 117, 108, 97, 114, 32, 105, 110, 118, 101, 114, 115, 101, 32, 100, 111, 101, 115, 32, 110, 111, 116, 32, 101, 120, 105, 115, 116, 32, 102, 111, 114, 32>>

S_And == <<32, 97, 110, 100, 32>>   \* ' and '

\* "invalid literal for int() with base 10: '"
S_InvalidLiteral ==
  <<105, 110, 118, 97, 108, 105, 100, 32, 108, 105, 116, 101, 114, 97, 108, 32, 102, 111, 114, 32, 105, 110, 116, 40, 41, 32, 119, 105, 116, 104, 32, 98, 97, 115, 101, 32, 49, 48, 58, 32, 39>>

\* 'the first two maketrans arguments must have equal length'
S_MaketransMsg ==
  <<116, 104, 101, 32, 102, 105, 114, 115, 116, 32, 116, 119, 111, 32, 109, 97, 107, 101, 116, 114, 97, 110, 115, 32, 97, 114, 103, 117, 109, 101, 110, 116, 115, 32, 109, 117, 115, 116, 32, 104, 97, 118, 101, 32, 101, 113, 117, 97, 108, 32, 108, 101, 110, 103, 116, 104>>

\* string.ascii_lowercase
S_Lowercase ==
  <<97, 98, 99, 100, 101, 102, 103, 104, 105, 106, 107, 108, 109, 110, 111, 112, 113, 114, 115, 116, 117, 118, 119, 120, 121, 122>>

\* string.ascii_uppercase
S_Uppercase ==
  <<65, 66, 67, 68, 69, 70, 71, 72, 73, 74, 75, 76, 77, 78, 79, 80, 81, 82, 83, 84, 85, 86, 87, 88, 89, 90>>

\* ============================ ciphers.py ============================

\* The outcome of a call: a returned value, or a raised exception with its
\* message (exc names the exception class).
Ok(v) == [exc |-> "none", val |-> v]

Raise(e, msg) == [exc |-> e, val |-> msg]

\* The classes `except Exception` catches that the library can raise.
ExceptionClasses == {"CipherError", "ValueError", "IndexError"}

\* A faulty keyword_index: it advances on every character.
LettersBefore_positions(text, i) == i - 1

\* the number of letters a-z, A-Z among text[1..i-1]: the value of
\* keyword_index when the loop reaches character i
LettersBefore(text, i) ==
  Cardinality({j \in 1..(i - 1) : IsLower(text[j]) \/ IsUpper(text[j])})

RECURSIVE gcd(_, _)
gcd(a, b) == IF b = 0 THEN a ELSE gcd(b, py_mod(a, b))

\* extended_gcd(a, b) -> <<gcd_val, x, y>>
RECURSIVE extended_gcd(_, _)
extended_gcd(a, b) ==
  IF a = 0 THEN <<b, 0, 1>>
  ELSE LET r == extended_gcd(py_mod(b, a), a)
       IN  <<r[1], r[3] - (b \div a) * r[2], r[2]>>

\* A faulty mod_inverse: the coefficient x is returned as extended_gcd gives
\* it, not normalized into 0..m-1.
mod_inverse_raw(a, m) ==
  LET r == extended_gcd(py_mod(a, m), m)
  IN  IF r[1] # 1
      THEN Raise("CipherError", S_ModInverseA \o py_str(a) \o S_And \o py_str(m))
      ELSE Ok(r[2])

mod_inverse(a, m) ==
  LET r == extended_gcd(py_mod(a, m), m)
  IN  IF r[1] # 1
      THEN Raise("CipherError", S_ModInverseA \o py_str(a) \o S_And \o py_str(m))
      ELSE Ok(py_mod(py_mod(r[2], m) + m, m))

\* A faulty Caesar: the shift is added.
caesar_cipher_forward(text, shift) ==
  Ok([i \in 1..Len(text) |->
        IF IsLower(text[i]) THEN py_mod(text[i] - 97 + shift, 26) + 97
        ELSE IF IsUpper(text[i]) THEN py_mod(text[i] - 65 + shift, 26) + 65
        ELSE text[i]])

caesar_cipher(text, shift) ==
  Ok([i \in 1..Len(text) |->
        IF IsLower(text[i]) THEN py_mod(text[i] - 97 - shift, 26) + 97
        ELSE IF IsUpper(text[i]) THEN py_mod(text[i] - 65 - shift, 26) + 65
        ELSE text[i]])

rot13_cipher(text) == caesar_cipher(text, 13)

\* A faulty Atbash: every character is reflected as a lower-case letter.
atbash_cipher_unguarded(text) ==
  Ok([i \in 1..Len(text) |-> 122 - (text[i] - 97)])

atbash_cipher(text) ==
  Ok([i \in 1..Len(text) |->
        IF IsLower(text[i]) THEN 122 - (text[i] - 97)
        ELSE IF IsUpper(text[i]) THEN 90 - (text[i] - 65)
        ELSE text[i]])

\* not keyword or not keyword.replace(' ', '').isalpha()
NotAlphabeticKeyword(keyword) ==
  keyword = <<>> \/ ~str_isalpha(str_remove(keyword, 32))

vigenere_cipher(text, keyword) ==
  IF NotAlphabeticKeyword(keyword)
  THEN Raise("CipherError", S_VigenereMsg \o keyword \o S_Quote)
  ELSE LET clean_keyword  == str_lower(str_join_split(keyword))
           keyword_len    == Len(clean_keyword)
           keyword_as_int == [k \in 1..keyword_len |-> clean_keyword[k] - 97]
           shift(i) == keyword_as_int[py_mod(LettersBefore(text, i), keyword_len) + 1]
       IN  Ok([i \in 1..Len(text) |->
                 IF IsLower(text[i]) THEN py_mod(text[i] - 97 - shift(i), 26) + 97
                 ELSE IF IsUpper(text[i]) THEN py_mod(text[i] - 65 - shift(i), 26) + 65
                 ELSE text[i]])

\* A faulty Beaufort: the key letter is subtracted, as Vigenere does.
beaufort_cipher_subtracting(text, keyword) == vigenere_cipher(text, keyword)

beaufort_cipher(text, keyword) ==
  IF NotAlphabeticKeyword(keyword)
  THEN Raise("CipherError", S_BeaufortMsg \o keyword \o S_Quote)
  ELSE LET clean_keyword  == str_lower(str_join_split(keyword))
           keyword_len    == Len(clean_keyword)
           keyword_as_int == [k \in 1..keyword_len |-> clean_keyword[k] - 97]
           shift(i) == keyword_as_int[py_mod(LettersBefore(text, i), keyword_len) + 1]
       IN  Ok([i \in 1..Len(text) |->
                 IF IsLower(text[i]) THEN py_mod(shift(i) - (text[i] - 97), 26) + 97
                 ELSE IF IsUpper(text[i]) THEN py_mod(shift(i) - (text[i] - 65), 26) + 65
                 ELSE text[i]])

\* A faulty table: str.maketrans(to, from).
str_translate_swapped(text, from, to) ==
  [i \in 1..Len(text) |->
     LET at == {k \in 1..Len(to) : to[k] = text[i]}
     IN  IF at = {} THEN text[i] ELSE from[SetMax(at)]]

\* text.translate(str.maketrans(from, to)): a character of `from` maps to the
\* character of `to` at its last position in `from` (a later dict entry
\* overwrites an earlier one); every other character is kept
str_translate(text, from, to) ==
  [i \in 1..Len(text) |->
     LET at == {k \in 1..Len(from) : from[k] = text[i]}
     IN  IF at = {} THEN text[i] ELSE to[SetMax(at)]]

simple_substitution_cipher(text, alphabet) ==
  IF alphabet = <<>> \/ Len(alphabet) # 26 \/ ~str_isalpha(alphabet)
  THEN Raise("CipherError", S_SubstitutionMsg \o alphabet \o S_Quote)
  ELSE LET substitution_lower == str_lower(alphabet)
           substitution_upper == str_upper(alphabet)
       IN  \* str.maketrans(x, y) raises ValueError unless len(x) == len(y)
           IF Len(substitution_lower) # Len(S_Lowercase)
              \/ Len(substitution_upper) # Len(S_Uppercase)
           THEN Raise("ValueError", S_MaketransMsg)
           ELSE Ok(str_translate(str_translate(text, substitution_lower, S_Lowercase),
                                 substitution_upper, S_Uppercase))

\* keyword.split(',', 1) for a keyword that holds a comma
SplitFirstComma(keyword) ==
  LET k == SetMin({i \in 1..Len(keyword) : keyword[i] = 44})
  IN  <<SubSeq(keyword, 1, k - 1), SubSeq(keyword, k + 1, Len(keyword))>>

\* The try block of affine_cipher after the split, for the stripped halves
\* a_str and b_str: <<a, b, a_inv>>, or the exception raised.
affine_parts(a_str, b_str) ==
  LET pa == py_int(a_str)
      pb == py_int(b_str)
  IN  IF ~pa.ok THEN Raise("ValueError", S_InvalidLiteral \o a_str \o S_Quote)
      ELSE IF ~pb.ok THEN Raise("ValueError", S_InvalidLiteral \o b_str \o S_Quote)
      ELSE IF gcd(pa.val, 26) # 1
           THEN Raise("CipherError", S_AffineCoprimeA \o py_str(pa.val) \o S_AffineCoprimeB)
      ELSE LET inv == mod_inverse(pa.val, 26)
           IN  IF inv.exc # "none" THEN inv
               ELSE Ok(<<pa.val, pb.val, inv.val>>)

\* The try block of affine_cipher: <<a, b, a_inv>>, or the exception raised.
affine_try(keyword) ==
  IF ~(\E i \in 1..Len(keyword) : keyword[i] = 44)
  THEN Raise("ValueError", <<>>)
  ELSE LET parts == SplitFirstComma(keyword)
       IN  affine_parts(str_strip(parts[1]), str_strip(parts[2]))

\* The decryption loop of affine_cipher.
affine_decrypt(text, b, a_inv) ==
  [i \in 1..Len(text) |->
     IF IsLower(text[i]) THEN py_mod(a_inv * ((text[i] - 97) - b), 26) + 97
     ELSE IF IsUpper(text[i]) THEN py_mod(a_inv * ((text[i] - 65) - b), 26) + 65
     ELSE text[i]]

\* affine_cipher from the outcome t of its try block on: the except clause,
\* then the loop.
affine_after_try(text, keyword, t) ==
  IF t.exc \in {"ValueError", "IndexError"}
  THEN Raise("CipherError", S_AffineFormatMsg \o keyword \o S_Quote)
  ELSE IF t.exc # "none" THEN t
  ELSE Ok(affine_decrypt(text, t.val[2], t.val[3]))

affine_cipher(text, keyword) == affine_after_try(text, keyword, affine_try(keyword))

reverse_cipher(text) == Ok(str_reverse(text))

\* the characters of s at the indices of keep, in ascending index order
RECURSIVE Pick(_, _)
Pick(s, keep) ==
  IF keep = {} THEN <<>>
  ELSE LET k == SetMin(keep) IN <<s[k]>> \o Pick(s, keep \ {k})

columnar_transposition_cipher(text, keyword) ==
  IF NotAlphabeticKeyword(keyword)
  THEN Raise("CipherError", S_ColumnarMsg \o keyword \o S_Quote)
  ELSE LET clean_keyword == str_upper(str_join_split(keyword))
           key_length    == Len(clean_keyword)
           \* the place of keyword position i (from 1) in the stable sort by letter
           rank(i) == Cardinality({j \in 1..key_length :
                          \/ clean_keyword[j] < clean_keyword[i]
                          \/ (clean_keyword[j] = clean_keyword[i] /\ j < i)})
           \* column_order, with Python's indices from 0 as values
           column_order == [c \in 1..key_length |->
                              (CHOOSE i \in 1..key_length : rank(i) = c - 1) - 1]
           num_rows == (Len(text) \div key_length)
                       + (IF Len(text) % key_length # 0 THEN 1 ELSE 0)
           \* text_index when the fill loop is at (col_priority, row)
           text_index(col_priority, row) == col_priority * num_rows + row
           \* grid[row][col] after the fill, '' where nothing was written: the
           \* loop writes column column_order.index(col_priority), so column
           \* col is written while col_priority is column_order[col]
           grid(row, col) ==
             LET col_priority == column_order[col + 1]
                 t == text_index(col_priority, row)
             IN  IF t < Len(text) THEN <<text[t + 1]>> ELSE <<>>
           cells == [n \in 1..(num_rows * key_length) |->
                       grid((n - 1) \div key_length, (n - 1) % key_length)]
       IN  Ok(str_rstrip(str_join(<<>>, cells)))

\* A faulty rebuild: the cycle length is taken as 2 * num_rails - 1.
rail_fence_rebuild_unbracketed(text, num_rails) ==
  LET n            == Len(text)
      cycle_length == 2 * num_rails - 1
      full_cycles  == n \div cycle_length
      remainder    == n % cycle_length
      chars_in_rail(rail) ==
        IF rail = 0 \/ rail = num_rails - 1
        THEN full_cycles + (IF remainder > rail THEN 1 ELSE 0)
        ELSE full_cycles * 2
             + (IF remainder > rail THEN 1 ELSE 0)
             + (IF remainder > cycle_length - rail THEN 1 ELSE 0)
      \* text_index when the fill loop starts rail r
      start[r \in 0..num_rails] ==
        IF r = 0 THEN 0
        ELSE LET e == start[r - 1] + chars_in_rail(r - 1)
             IN  IF e < n THEN e ELSE n
      rails(rail) == SubSeq(text, start[rail] + 1, start[rail + 1])
      rail_of(i) ==
        LET cycle_pos == i % cycle_length
        IN  IF cycle_pos < num_rails THEN cycle_pos ELSE cycle_length - cycle_pos
      \* rail_indices[rail_of(i)] when the rebuild loop reaches i
      rail_index(i) == Cardinality({j \in 0..(i - 1) : rail_of(j) = rail_of(i)})
      result == [i \in 1..n |->
                   IF rail_index(i - 1) < Len(rails(rail_of(i - 1)))
                   THEN <<rails(rail_of(i - 1))[rail_index(i - 1) + 1]>>
                   ELSE <<>>]
  IN  str_join(<<>>, result)

\* rail_fence_cipher for a text longer than num_rails >= 2: the rails are cut
\* out of the text, then read back along the zigzag.
rail_fence_rebuild(text, num_rails) ==
  LET n            == Len(text)
      cycle_length == 2 * (num_rails - 1)
      full_cycles  == n \div cycle_length
      remainder    == n % cycle_length
      chars_in_rail(rail) ==
        IF rail = 0 \/ rail = num_rails - 1
        THEN full_cycles + (IF remainder > rail THEN 1 ELSE 0)
        ELSE full_cycles * 2
             + (IF remainder > rail THEN 1 ELSE 0)
             + (IF remainder > cycle_length - rail THEN 1 ELSE 0)
      \* text_index when the fill loop starts rail r
      start[r \in 0..num_rails] ==
        IF r = 0 THEN 0
        ELSE LET e == start[r - 1] + chars_in_rail(r - 1)
             IN  IF e < n THEN e ELSE n
      rails(rail) == SubSeq(text, start[rail] + 1, start[rail + 1])
      rail_of(i) ==
        LET cycle_pos == i % cycle_length
        IN  IF cycle_pos < num_rails THEN cycle_pos ELSE cycle_length - cycle_pos
      \* rail_indices[rail_of(i)] when the rebuild loop reaches i
      rail_index(i) == Cardinality({j \in 0..(i - 1) : rail_of(j) = rail_of(i)})
      result == [i \in 1..n |->
                   IF rail_index(i - 1) < Len(rails(rail_of(i - 1)))
                   THEN <<rails(rail_of(i - 1))[rail_index(i - 1) + 1]>>
                   ELSE <<>>]
  IN  str_join(<<>>, result)

rail_fence_cipher(text, keyword) ==
  LET p == py_int(keyword)
  IN  IF ~p.ok \/ p.val < 2
      THEN Raise("CipherError", S_RailFenceMsg \o keyword \o S_Quote)
      ELSE IF Len(text) <= p.val THEN Ok(text)
      ELSE Ok(rail_fence_rebuild(text, p.val))

\* A faulty grid: the keyword's letters are not deduplicated.
playfair_grid_repeating(clean_keyword) ==
  LET seen == {clean_keyword[i] : i \in 1..Len(clean_keyword)}
  IN  SelectSeq(clean_keyword,
                LAMBDA c : \E k \in 1..Len(S_PlayfairAlphabet) : S_PlayfairAlphabet[k] = c)
        \o SelectSeq(S_PlayfairAlphabet, LAMBDA c : c \notin seen)

\* grid_chars: the keyword's letters of the 25-letter alphabet, first
\* occurrences only, then the letters not yet seen
playfair_grid(clean_keyword) ==
  LET first == {i \in 1..Len(clean_keyword) :
                  /\ \E k \in 1..Len(S_PlayfairAlphabet) : S_PlayfairAlphabet[k] = clean_keyword[i]
                  /\ \A j \in 1..(i - 1) : clean_keyword[j] # clean_keyword[i]}
      seen  == {clean_keyword[i] : i \in first}
  IN  Pick(clean_keyword, first) \o SelectSeq(S_PlayfairAlphabet, LAMBDA c : c \notin seen)

\* A faulty Playfair: the length of the cleaned text is not checked, and a
\* last letter without a partner is kept as it is.
playfair_cipher_unchecked(text, keyword) ==
  IF NotAlphabeticKeyword(keyword)
  THEN Raise("CipherError", S_PlayfairKeywordMsg \o keyword \o S_Quote)
  ELSE LET clean_keyword == str_replace(str_upper(str_join_split(keyword)), 74, 73)
           grid_chars    == playfair_grid(clean_keyword)
           in_grid(c)    == \E k \in 1..Len(grid_chars) : grid_chars[k] = c
           \* char_to_pos[c] = (i // 5, i % 5)
           idx(c) == (CHOOSE k \in 1..Len(grid_chars) : grid_chars[k] = c) - 1
           row(c) == idx(c) \div 5
           col(c) == idx(c) % 5
           at(r, c) == grid_chars[r * 5 + c + 1]
           clean_text == str_replace(str_upper(SelectSeq(text, IsAlphaChar)), 74, 73)
           pair(char1, char2) ==
             IF ~in_grid(char1) \/ ~in_grid(char2) THEN <<char1, char2>>
             ELSE IF row(char1) = row(char2)
                  THEN <<at(row(char1), py_mod(col(char1) - 1, 5)),
                         at(row(char2), py_mod(col(char2) - 1, 5))>>
             ELSE IF col(char1) = col(char2)
                  THEN <<at(py_mod(row(char1) - 1, 5), col(char1)),
                         at(py_mod(row(char2) - 1, 5), col(char2))>>
             ELSE <<at(row(char1), col(char2)), at(row(char2), col(char1))>>
       IN  Ok([q \in 1..Len(clean_text) |->
                 IF q % 2 = 0 THEN pair(clean_text[q - 1], clean_text[q])[2]
                 ELSE IF q = Len(clean_text) THEN clean_text[q]
                 ELSE pair(clean_text[q], clean_text[q + 1])[1]])

playfair_cipher(text, keyword) ==
  IF NotAlphabeticKeyword(keyword)
  THEN Raise("CipherError", S_PlayfairKeywordMsg \o keyword \o S_Quote)
  ELSE LET clean_keyword == str_replace(str_upper(str_join_split(keyword)), 74, 73)
           grid_chars    == playfair_grid(clean_keyword)
           in_grid(c)    == \E k \in 1..Len(grid_chars) : grid_chars[k] = c
           \* char_to_pos[c] = (i // 5, i % 5)
           idx(c) == (CHOOSE k \in 1..Len(grid_chars) : grid_chars[k] = c) - 1
           row(c) == idx(c) \div 5
           col(c) == idx(c) % 5
           at(r, c) == grid_chars[r * 5 + c + 1]
           clean_text == str_replace(str_upper(SelectSeq(text, IsAlphaChar)), 74, 73)
           pair(char1, char2) ==
             IF ~in_grid(char1) \/ ~in_grid(char2) THEN <<char1, char2>>
             ELSE IF row(char1) = row(char2)
                  THEN <<at(row(char1), py_mod(col(char1) - 1, 5)),
                         at(row(char2), py_mod(col(char2) - 1, 5))>>
             ELSE IF col(char1) = col(char2)
                  THEN <<at(py_mod(row(char1) - 1, 5), col(char1)),
                         at(py_mod(row(char2) - 1, 5), col(char2))>>
             ELSE <<at(row(char1), col(char2)), at(row(char2), col(char1))>>
       IN  IF Len(clean_text) % 2 # 0
           THEN Raise("CipherError", S_PlayfairEvenMsg)
           ELSE Ok([q \in 1..Len(clean_text) |->
                      IF q % 2 = 1 THEN pair(clean_text[q], clean_text[q + 1])[1]
                      ELSE pair(clean_text[q - 1], clean_text[q])[2]])

\* cipher_method.lower().replace('_', '').replace('-', '').replace(' ', '')
normalize_method(cipher_method) ==
  str_remove(str_remove(str_remove(str_lower(cipher_method), 95), 45), 32)

available_ciphers ==
  <<M_caesar, M_rot13, M_atbash, M_vigenere, M_beaufort, M_simple_substitution,
    M_affine, M_reverse, M_columnar_transposition, M_rail_fence, M_playfair>>

\* The body of apply_cipher's try block for the normalized method name: the
\* value returned, or the exception that leaves the block.
apply_cipher_try(ciphertext, keyword, method) ==
  IF method = M_reverse THEN reverse_cipher(ciphertext)
  ELSE IF method = M_rot13 THEN rot13_cipher(ciphertext)
  ELSE IF method = M_atbash THEN atbash_cipher(ciphertext)
  ELSE IF keyword = <<>>
       THEN Ok(S_ErrorPrefix \o str_title(method) \o S_RequiresKeyword)
  ELSE IF method = M_caesar
       THEN LET shift == py_int(keyword)
            IN  IF shift.ok THEN caesar_cipher(ciphertext, shift.val)
                ELSE Ok(S_CaesarNumeric \o keyword \o S_QuoteDot)
  ELSE IF method = M_vigenere THEN vigenere_cipher(ciphertext, keyword)
  ELSE IF method = M_beaufort THEN beaufort_cipher(ciphertext, keyword)
  ELSE IF method \in {N_simplesubstitution, N_substitution, N_monoalphabetic}
       THEN simple_substitution_cipher(ciphertext, keyword)
  ELSE IF method = M_affine THEN affine_cipher(ciphertext, keyword)
  ELSE IF method \in {N_columnartransposition, N_columnar}
       THEN columnar_transposition_cipher(ciphertext, keyword)
  ELSE IF method \in {N_railfence, N_zigzag} THEN rail_fence_cipher(ciphertext, keyword)
  ELSE IF method = M_playfair THEN playfair_cipher(ciphertext, keyword)
  ELSE Ok(S_UnknownMethod \o method \o S_Available
          \o str_join(S_CommaSpace, available_ciphers))

\* The except clauses of apply_cipher: what the call does with the outcome r
\* of its try block.
apply_cipher_except(r) ==
  IF r.exc = "none" THEN Ok(r.val)
  ELSE IF r.exc = "CipherError" THEN Ok(S_ErrorPrefix \o r.val)
  ELSE IF r.exc \in ExceptionClasses THEN Ok(S_UnexpectedPrefix \o r.val)
  ELSE r

\* print(s) returns: sys.stdout, a UTF-8 text stream, encodes every character
\* of s.  A high surrogate (U+D800..U+DBFF) is one it cannot encode, with the
\* "strict" and with the "surrogateescape" error handler: print raises
\* UnicodeEncodeError.
stdout_encodes(s) == \A i \in 1..Len(s) : s[i] \notin 55296..56319

\* What the print before apply_cipher's try block formats: the normalized
\* method name, the keyword and ciphertext[:50].
apply_cipher_printed(ciphertext, keyword, method) ==
  method \o keyword
         \o SubSeq(ciphertext, 1, IF Len(ciphertext) > 50 THEN 50 ELSE Len(ciphertext))

\* apply_cipher as a call: the string returned, or the exception raised.
apply_cipher_call(ciphertext, keyword, cipher_method) ==
  IF ciphertext = <<>> THEN Ok(S_NoCiphertext)
  ELSE IF ~stdout_encodes(apply_cipher_printed(ciphertext, keyword,
                                               normalize_method(cipher_method)))
       THEN Raise("UnicodeEncodeError", <<>>)
  ELSE apply_cipher_except(
         apply_cipher_try(ciphertext, keyword, normalize_method(cipher_method)))

parse_keywords(keyword_string) ==
  IF keyword_string = <<>> THEN <<>>
  ELSE LET items   == str_split(keyword_string, {44, 10})
           cleaned == [i \in 1..Len(items) |-> str_strip(items[i])]
       IN  SelectSeq(cleaned, LAMBDA c : c # <<>>)

is_valid_keyword_for_cipher(keyword, cipher_method) ==
  LET method == normalize_method(cipher_method)
  IN  IF method \in {M_reverse, M_rot13, M_atbash} THEN keyword = <<>>
      ELSE IF method = M_caesar THEN py_int(keyword).ok
      ELSE IF method \in {N_railfence, N_zigzag}
           THEN py_int(keyword).ok /\ py_int(keyword).val >= 2
      ELSE IF method = M_affine
           THEN /\ \E i \in 1..Len(keyword) : keyword[i] = 44
                /\ LET parts == SplitFirstComma(keyword)
                       pa == py_int(str_strip(parts[1]))
                       pb == py_int(str_strip(parts[2]))
                   IN  pa.ok /\ pb.ok /\ gcd(pa.val, 26) = 1
      ELSE IF method \in {M_vigenere, M_beaufort, N_columnartransposition,
                          N_columnar, M_playfair}
           THEN str_isalpha(str_remove(keyword, 32)) /\ Len(str_remove(keyword, 32)) > 0
      ELSE IF method \in {N_simplesubstitution, N_substitution, N_monoalphabetic}
           THEN LET clean_keyword == str_remove(keyword, 32)
                IN  /\ Len(clean_keyword) = 26
                    /\ str_isalpha(clean_keyword)
                    /\ Cardinality({str_lower(clean_keyword)[i] : i \in 1..Len(clean_keyword)}) = 26
      ELSE FALSE

\* the first loop of generate_affine_combinations: the pool entries int() parses
RECURSIVE affine_numbers(_)
affine_numbers(keywords) ==
  IF keywords = <<>> THEN <<>>
  ELSE (IF py_int(Head(keywords)).ok THEN <<py_int(Head(keywords)).val>> ELSE <<>>)
       \o affine_numbers(Tail(keywords))

\* A faulty second loop: b is taken from the other numbers only.
RECURSIVE affine_pairs_distinct(_, _)
affine_pairs_distinct(rest, numbers) ==
  IF rest = <<>> THEN <<>>
  ELSE (IF gcd(py_abs(Head(rest)), 26) = 1
        THEN LET others == SelectSeq(numbers, LAMBDA b : b # Head(rest))
             IN  [j \in 1..Len(others) |-> py_str(Head(rest)) \o <<44>> \o py_str(others[j])]
        ELSE <<>>)
       \o affine_pairs_distinct(Tail(rest), numbers)

\* the second loop, over the entries `rest` of numbers still to visit
RECURSIVE affine_pairs(_, _)
affine_pairs(rest, numbers) ==
  IF rest = <<>> THEN <<>>
  ELSE (IF gcd(py_abs(Head(rest)), 26) = 1
        THEN [j \in 1..Len(numbers) |-> py_str(Head(rest)) \o <<44>> \o py_str(numbers[j])]
        ELSE <<>>)
       \o affine_pairs(Tail(rest), numbers)

generate_affine_combinations(keywords) ==
  affine_pairs(affine_numbers(keywords), affine_numbers(keywords))

generate_substitution_alphabet(keywords) ==
  SelectSeq(keywords,
            LAMBDA keyword :
              LET clean_keyword == str_remove(keyword, 32)
              IN  /\ Len(clean_keyword) = 26
                  /\ str_isalpha(clean_keyword)
                  /\ Cardinality({str_lower(clean_keyword)[i] : i \in 1..Len(clean_keyword)}) = 26)

\* ============================ decryptor_app.py ============================

\* A bound of the model: the longest keyword list a run is given.
MaxPool == 2

\* The keyword entries the user types: "3", "+3" (the same integer written
\* differently) and a 26-letter substitution alphabet, which is also an
\* alphabetic keyword.
KW_3 == <<51>>

KW_plus3 == <<43, 51>>

\* 'QWERTYUIOPASDFGHJKLZXCVBNM'
KW_alphabet ==
  <<81, 87, 69, 82, 84, 89, 85, 73, 79, 80, 65, 83, 68, 70, 71, 72, 74, 75, 76, 90, 88, 67, 86, 66, 78, 77>>

PoolEntries == {KW_3, KW_plus3, KW_alphabet}

\* What get_keywords_from_ui can return within the bound.
Pools == UNION {[1..n -> PoolEntries] : n \in 0..MaxPool}

\* The problem tabs and the cipher text each holds: 'ab', 'Ab!c' (three
\* letters, so Playfair rejects it) and an empty one.
TabNames == {"A", "B", "C"}

TabCiphertext == [t \in TabNames |->
                    IF t = "A" THEN <<97, 98>>
                    ELSE IF t = "B" THEN <<65, 98, 33, 99>>
                    ELSE <<>>]

VARIABLES
  pc,               \* "idle", "running", "finished" or "rejected": where run_decryption_process is
  tab_name,         \* selected_tab_name of the run
  ciphertext,       \* the run's ciphertext
  keywords,         \* the run's parsed keyword list
  tested_pairs,     \* the global set of (keyword, cipher_method) pairs
  tested_at_start,  \* tested_pairs as the run received it
  db_tested_pairs,  \* the tested_pairs table of the database
  db_results,       \* the rows of the results table
  mi,               \* index into cipher_methods of the method being tested
  ki,               \* index of the candidate key being tested for that method
  total_tests,
  new_tests,
  is_meaningful,    \* the verdict passed to the latest display call
  log,              \* what the run did with each candidate key, in order
  displayed,        \* the run's calls of display_result_in_ui, in order
  oracle_calls,     \* the texts the run passed to evaluate_decryption_result
  ac_args,          \* a direct call of a library function: its arguments
  ac_result         \* and its outcomes

vars == <<pc, tab_name, ciphertext, keywords, tested_pairs, tested_at_start,
          db_tested_pairs, db_results, mi, ki, total_tests, new_tests,
          is_meaningful, log, displayed, oracle_calls, ac_args, ac_result>>

\* A faulty enumeration: the methods listed in alphabetical order.
cipher_methods_sorted ==
  <<M_affine, M_atbash, M_beaufort, M_caesar, M_columnar_transposition, M_playfair,
    M_rail_fence, M_reverse, M_rot13, M_simple_substitution, M_vigenere>>

cipher_methods ==
  <<M_caesar, M_rot13, M_atbash, M_vigenere, M_beaufort, M_simple_substitution,
    M_affine, M_reverse, M_columnar_transposition, M_rail_fence, M_playfair>>

\* cipher_method in ['reverse', 'rot13', 'atbash']
KeywordFree(cipher_method) == cipher_method \in {M_reverse, M_rot13, M_atbash}

\* The candidate keys the engine iterates over for one method, in order.
Candidates(cipher_method, kws) ==
  IF KeywordFree(cipher_method) THEN << <<>> >>
  ELSE IF cipher_method = M_affine THEN generate_affine_combinations(kws)
  ELSE IF cipher_method = M_simple_substitution THEN generate_substitution_alphabet(kws)
  ELSE kws

\* The method whose loop runs after method m's: the next one with a candidate
\* (Len(cipher_methods) + 1 when the outer loop ends).
RECURSIVE NextMethod(_, _)
NextMethod(m, kws) ==
  IF m + 1 > Len(cipher_methods) THEN m + 1
  ELSE IF Len(Candidates(cipher_methods[m + 1], kws)) > 0 THEN m + 1
  ELSE NextMethod(m + 1, kws)

\* The loop position after the iteration at (m, k).
Advance(m, k, kws) ==
  IF k < Len(Candidates(cipher_methods[m], kws)) THEN <<m, k + 1>>
  ELSE <<NextMethod(m, kws), 1>>

\* apply_cipher as the engine uses it: the string it returns.
apply_cipher(text, keyword, cipher_method) ==
  apply_cipher_call(text, keyword, cipher_method).val

\* not result.startswith("Error:")
NotError(result) == ~str_startswith(result, S_ErrorColon)

\* The arguments of one display_result_in_ui call (is_meaningful apart).
Row(keyword, result, cipher_method) ==
  [keyword |-> keyword, decrypted_text |-> result, cipher_method |-> cipher_method]

\* save_single_result: one more row of the results table (the is_meaningful
\* column is left out of the model's rows).
save_single_result(tab, keyword, result, cipher_method) ==
  db_results' = db_results \cup
    {[tab_name |-> tab, keyword |-> keyword, decrypted_text |-> result,
      cipher_method |-> cipher_method]}

\* A faulty save_data: the table is left as it was.
save_data_skipped(pairs) == UNCHANGED db_tested_pairs

\* save_data: the tested_pairs table is replaced by the set passed in.
save_data(pairs) == db_tested_pairs' = pairs

\* A faulty load_data: the rows of the table are not read.
load_data_unread == {}

\* load_data: the set of the rows of the tested_pairs table.
load_data == db_tested_pairs

\* A faulty add: the set is left as it was.
add_pair_dropped(pairs, keyword, cipher_method) == pairs

\* A faulty add: the set is replaced by the pair.
add_pair_only(pairs, keyword, cipher_method) == {<<keyword, cipher_method>>}

\* tested_pairs.add(current_pair)
add_pair(pairs, keyword, cipher_method) == pairs \cup {<<keyword, cipher_method>>}

Init ==
  /\ pc = "idle"
  /\ tab_name = "A"
  /\ ciphertext = <<>>
  /\ keywords = <<>>
  /\ tested_pairs = {}
  /\ tested_at_start = {}
  /\ db_tested_pairs = {}
  /\ db_results = {}
  /\ mi = 1
  /\ ki = 1
  /\ total_tests = 0
  /\ new_tests = 0
  /\ is_meaningful = FALSE
  /\ log = <<>>
  /\ displayed = <<>>
  /\ oracle_calls = <<>>
  /\ ac_args = <<>>
  /\ ac_result = <<>>

\* The Decrypt button with no cipher text or no keywords: one message row, and
\* the engine is not called.
RunRejected(tab, keywords_from_ui) ==
  /\ pc # "running"
  /\ TabCiphertext[tab] = <<>> \/ keywords_from_ui = <<>>
  /\ pc' = "rejected"
  /\ tab_name' = tab
  /\ ciphertext' = TabCiphertext[tab]
  /\ keywords' = keywords_from_ui
  /\ displayed' = <<Row(S_NA, S_PleaseEnter, S_NA)>>
  /\ log' = <<>>
  /\ oracle_calls' = <<>>
  /\ tested_at_start' = tested_pairs
  /\ is_meaningful' = FALSE
  /\ mi' = 1 /\ ki' = 1 /\ total_tests' = 0 /\ new_tests' = 0
  /\ UNCHANGED <<tested_pairs, db_tested_pairs, db_results, ac_args, ac_result>>

\* The Decrypt button: the tested pairs are reloaded and the engine starts on
\* its first method.  With no keyword the engine returns at once, and the
\* caller saves.
RunStart(tab, keywords_from_ui) ==
  /\ pc # "running"
  /\ TabCiphertext[tab] # <<>> /\ keywords_from_ui # <<>>
  /\ tab_name' = tab
  /\ ciphertext' = TabCiphertext[tab]
  /\ tested_pairs' = load_data
  /\ tested_at_start' = load_data
  /\ keywords' = parse_keywords(str_join(<<44>>, keywords_from_ui))
  /\ IF keywords' = <<>>
     THEN pc' = "finished" /\ save_data(tested_pairs')
     ELSE pc' = "running" /\ UNCHANGED db_tested_pairs
  /\ mi' = 1 /\ ki' = 1 /\ total_tests' = 0 /\ new_tests' = 0
  /\ is_meaningful' = FALSE
  /\ log' = <<>>
  /\ displayed' = <<>>
  /\ oracle_calls' = <<>>
  /\ UNCHANGED <<db_results, ac_args, ac_result>>

\* One line of the run's record: what the engine did with a candidate key.
Event(kind, keyword, cipher_method) ==
  [kind |-> kind, keyword |-> keyword, cipher_method |-> cipher_method]

\* The engine is inside the loop of method mi, at candidate ki.
AtCandidate ==
  /\ pc = "running"
  /\ mi <= Len(cipher_methods)
  /\ ki <= Len(Candidates(cipher_methods[mi], keywords))

\* The loop variables cipher_method and keyword (combo, alphabet) at (mi, ki).
current_method == cipher_methods[mi]

current_key == Candidates(cipher_methods[mi], keywords)[ki]

\* The loop variables after this iteration.
Step ==
  /\ \E position \in {Advance(mi, ki, keywords)} :
       mi' = position[1] /\ ki' = position[2]
  /\ UNCHANGED <<pc, tab_name, ciphertext, keywords, tested_at_start,
                 db_tested_pairs, ac_args, ac_result>>

\* A faulty skip: total_tests is not incremented.
SkipTested_uncounted(keyword, cipher_method) ==
  /\ log' = Append(log, Event("skipped", keyword, cipher_method))
  /\ UNCHANGED <<total_tests, tested_pairs, new_tests, is_meaningful, displayed,
                 oracle_calls, db_results>>

\* A candidate key found in tested_pairs: "already tested. Skipping."
SkipTested(keyword, cipher_method) ==
  /\ log' = Append(log, Event("skipped", keyword, cipher_method))
  /\ total_tests' = total_tests + 1
  /\ UNCHANGED <<tested_pairs, new_tests, is_meaningful, displayed,
                 oracle_calls, db_results>>

\* A faulty rejection: the pair is not marked as tested.
RejectInvalid_unmarked(keyword, cipher_method) ==
  /\ log' = Append(log, Event("invalid", keyword, cipher_method))
  /\ total_tests' = total_tests + 1
  /\ UNCHANGED <<tested_pairs, new_tests, is_meaningful, displayed, oracle_calls,
                 db_results>>

\* A faulty rejection: total_tests is not incremented.
RejectInvalid_uncounted(keyword, cipher_method) ==
  /\ log' = Append(log, Event("invalid", keyword, cipher_method))
  /\ tested_pairs' = tested_pairs \cup {<<keyword, cipher_method>>}
  /\ UNCHANGED <<total_tests, new_tests, is_meaningful, displayed, oracle_calls,
                 db_results>>

\* A candidate key that is_valid_keyword_for_cipher refuses: marked as tested.
RejectInvalid(keyword, cipher_method) ==
  /\ log' = Append(log, Event("invalid", keyword, cipher_method))
  /\ tested_pairs' = add_pair(tested_pairs, keyword, cipher_method)
  /\ total_tests' = total_tests + 1
  /\ UNCHANGED <<new_tests, is_meaningful, displayed, oracle_calls, db_results>>

\* What follows the apply_cipher call that returned result; verdict is the
\* answer of evaluate_decryption_result, asked for when result is no error.
Outcome(keyword, cipher_method, result, verdict) ==
  /\ IF NotError(result)
     THEN /\ is_meaningful' = verdict
          /\ oracle_calls' = Append(oracle_calls, result)
          /\ save_single_result(tab_name, keyword, result, cipher_method)
     ELSE /\ is_meaningful' = FALSE
          /\ UNCHANGED <<oracle_calls, db_results>>
  /\ displayed' = Append(displayed, Row(keyword, result, cipher_method))
  /\ log' = Append(log, Event("tested", keyword, cipher_method))
  /\ tested_pairs' = add_pair(tested_pairs, keyword, cipher_method)
  /\ new_tests' = new_tests + 1
  /\ total_tests' = total_tests + 1

\* A candidate key handed to apply_cipher.
RunTest(keyword, cipher_method, verdict) ==
  Outcome(keyword, cipher_method,
          apply_cipher(ciphertext, keyword, cipher_method), verdict)

\* The body the keyword-free, affine and substitution blocks share: test the
\* pair unless it is in tested_pairs.
TestUnlessTested(keyword, cipher_method, verdict) ==
  IF <<keyword, cipher_method>> \notin tested_pairs
  THEN RunTest(keyword, cipher_method, verdict)
  ELSE SkipTested(keyword, cipher_method)

\* The body of the loop over the raw keywords.
TestRawKeyword(keyword, cipher_method, verdict) ==
  IF <<keyword, cipher_method>> \in tested_pairs
  THEN SkipTested(keyword, cipher_method)
  ELSE IF ~is_valid_keyword_for_cipher(keyword, cipher_method)
       THEN RejectInvalid(keyword, cipher_method)
  ELSE RunTest(keyword, cipher_method, verdict)

\* One pass of the block for reverse, rot13 and atbash.
TestKeywordFree ==
  /\ AtCandidate
  /\ KeywordFree(current_method)
  /\ \E verdict \in BOOLEAN : TestUnlessTested(<<>>, current_method, verdict)
  /\ Step

\* One iteration of the loop over the affine combinations.
TestAffine ==
  /\ AtCandidate
  /\ current_method = M_affine
  /\ \E verdict \in BOOLEAN : TestUnlessTested(current_key, current_method, verdict)
  /\ Step

\* One iteration of the loop over the substitution alphabets.
TestSubstitution ==
  /\ AtCandidate
  /\ current_method = M_simple_substitution
  /\ \E verdict \in BOOLEAN : TestUnlessTested(current_key, current_method, verdict)
  /\ Step

\* One iteration of the loop over the raw keywords, for the other ciphers.
TestKeyword ==
  /\ AtCandidate
  /\ ~KeywordFree(current_method)
  /\ current_method \notin {M_affine, M_simple_substitution}
  /\ \E verdict \in BOOLEAN : TestRawKeyword(current_key, current_method, verdict)
  /\ Step

\* The engine returns and run_decryption_process saves the tested pairs.
RunFinish ==
  /\ pc = "running"
  /\ mi > Len(cipher_methods)
  /\ pc' = "finished"
  /\ save_data(tested_pairs)
  /\ UNCHANGED <<tab_name, ciphertext, keywords, tested_pairs, tested_at_start,
                 db_results, mi, ki, total_tests, new_tests, is_meaningful, log,
                 displayed, oracle_calls, ac_args, ac_result>>

Next ==
  \/ \E tab \in TabNames, kws \in Pools : RunRejected(tab, kws)
  \/ \E tab \in TabNames, kws \in Pools : RunStart(tab, kws)
  \/ TestKeywordFree
  \/ TestAffine
  \/ TestSubstitution
  \/ TestKeyword
  \/ RunFinish

Spec == Init /\ [][Next]_vars

\* ==================== apply_cipher called on its own ====================

\* The ciphertext arguments of a direct call: '', 'ab', 'Ab!c', 'TFJJQ', and
\* two strings that hold a lone surrogate (alone, and after the letter 'a').
ApplyTexts ==
  {<<>>, <<97, 98>>, <<65, 98, 33, 99>>, <<84, 70, 74, 74, 81>>, <<55296>>, <<97, 55296>>}

\* The keyword arguments: '', '3', '+3', '1', 'x3', 'ab', '2,3', '3,3', '3,x',
\* 'KEYWORD', the 26-letter alphabet and a lone surrogate.
ApplyKeywords ==
  {<<>>, KW_3, KW_plus3, <<49>>, <<120, 51>>, <<97, 98>>, <<50, 44, 51>>,
   <<51, 44, 51>>, <<51, 44, 120>>, <<75, 69, 89, 87, 79, 82, 68>>, KW_alphabet, <<55296>>}

\* The cipher_method arguments: the eleven names, 'Rail-Fence', the aliases,
\* and the unrecognised 'foo' and ''.
ApplyMethods ==
  {cipher_methods[i] : i \in 1..Len(cipher_methods)}
    \cup {<<82, 97, 105, 108, 45, 70, 101, 110, 99, 101>>, N_zigzag, N_substitution,
          N_monoalphabetic, N_columnar, <<102, 111, 111>>, <<>>}

InitApply ==
  /\ pc = "idle"
  /\ tab_name = "A"
  /\ ciphertext = <<>>
  /\ keywords = <<>>
  /\ tested_pairs = {}
  /\ tested_at_start = {}
  /\ db_tested_pairs = {}
  /\ db_results = {}
  /\ mi = 1
  /\ ki = 1
  /\ total_tests = 0
  /\ new_tests = 0
  /\ is_meaningful = FALSE
  /\ log = <<>>
  /\ displayed = <<>>
  /\ oracle_calls = <<>>
  /\ ac_args \in ApplyTexts \X ApplyKeywords \X ApplyMethods
  /\ ac_result = <<>>

\* The call apply_cipher(ciphertext, keyword, cipher_method) and its outcome.
ApplyCipher ==
  /\ ac_result = <<>>
  /\ ac_result' = <<apply_cipher_call(ac_args[1], ac_args[2], ac_args[3])>>
  /\ UNCHANGED <<pc, tab_name, ciphertext, keywords, tested_pairs, tested_at_start,
                 db_tested_pairs, db_results, mi, ki, total_tests, new_tests,
                 is_meaningful, log, displayed, oracle_calls, ac_args>>

NextApply == ApplyCipher

ApplySpec == InitApply /\ [][NextApply]_vars

\* ============== the cipher functions called on their own ==============

\* The variables of a run of the engine, which a direct call leaves alone.
run_vars == <<pc, tab_name, ciphertext, keywords, tested_pairs, tested_at_start,
              db_tested_pairs, db_results, mi, ki, total_tests, new_tests,
              is_meaningful, log, displayed, oracle_calls>>

\* No run of the engine has been started.
NoRun ==
  /\ pc = "idle"
  /\ tab_name = "A"
  /\ ciphertext = <<>>
  /\ keywords = <<>>
  /\ tested_pairs = {}
  /\ tested_at_start = {}
  /\ db_tested_pairs = {}
  /\ db_results = {}
  /\ mi = 1
  /\ ki = 1
  /\ total_tests = 0
  /\ new_tests = 0
  /\ is_meaningful = FALSE
  /\ log = <<>>
  /\ displayed = <<>>
  /\ oracle_calls = <<>>

\* The texts handed to a cipher function: 'ab', 'Ab!c', 'a!', 'Khoor Zruog'
\* and 'Hello World'.
TransformTexts ==
  {<<97, 98>>, <<65, 98, 33, 99>>, <<97, 33>>,
   <<75, 104, 111, 111, 114, 32, 90, 114, 117, 111, 103>>,
   <<72, 101, 108, 108, 111, 32, 87, 111, 114, 108, 100>>}

\* The keys: '', '3', '-27', '29', 'x3', 'ab', 'Key', 'b c', '3,5', '-3,5',
\* '2', the 26-letter alphabet and 'qwertyuiopasdfghjklzxcvbnM', the same
\* alphabet in the other case.
TransformKeys ==
  {<<>>, KW_3, <<45, 50, 55>>, <<50, 57>>, <<120, 51>>, <<97, 98>>, <<75, 101, 121>>,
   <<98, 32, 99>>, <<51, 44, 53>>, <<45, 51, 44, 53>>, <<50>>, KW_alphabet,
   <<113, 119, 101, 114, 116, 121, 117, 105, 111, 112, 97, 115, 100, 102, 103, 104, 106, 107, 108, 122, 120, 99, 118, 98, 110, 77>>}

InitTransform ==
  /\ NoRun
  /\ ac_args \in TransformTexts \X TransformKeys
                 \X {cipher_methods[i] : i \in 1..Len(cipher_methods)}
  /\ ac_result = <<>>

\* The cipher function of the method is called as apply_cipher's try block
\* calls it: its outcome is the text returned or the exception raised.
CallTransform ==
  /\ ac_result = <<>>
  /\ ac_result' = <<apply_cipher_try(ac_args[1], ac_args[2], normalize_method(ac_args[3]))>>
  /\ UNCHANGED <<run_vars, ac_args>>

\* The same call on the text the first call returned.
CallTransformAgain ==
  /\ Len(ac_result) = 1
  /\ ac_result[1].exc = "none"
  /\ ac_result' = Append(ac_result,
                         apply_cipher_try(ac_result[1].val, ac_args[2],
                                          normalize_method(ac_args[3])))
  /\ UNCHANGED <<run_vars, ac_args>>

NextTransform == CallTransform \/ CallTransformAgain

TransformSpec == InitTransform /\ [][NextTransform]_vars

\* ============ is_valid_keyword_for_cipher called on its own ============

\* 'aaaaaaaaaaaaaaaaaaaaaaaaaa': 26 letters, one letter repeated
KW_repeated ==
  <<97, 97, 97, 97, 97, 97, 97, 97, 97, 97, 97, 97, 97, 97, 97, 97, 97, 97, 97, 97, 97, 97, 97, 97, 97, 97>>

\* 'QWERTYUIOP ASDFGHJKLZXCVBNM': the 26 letters with a space among them
KW_spaced ==
  <<81, 87, 69, 82, 84, 89, 85, 73, 79, 80, 32, 65, 83, 68, 70, 71, 72, 74, 75, 76, 90, 88, 67, 86, 66, 78, 77>>

\* 'ßbcdefghijklmnopqrstuvwxyz': 26 distinct letters, the first a sharp s
KW_eszett ==
  <<223, 98, 99, 100, 101, 102, 103, 104, 105, 106, 107, 108, 109, 110, 111, 112, 113, 114, 115, 116, 117, 118, 119, 120, 121, 122>>

\* The keys: '', '3', 'x3', 'ab', 'b c', '3,5', '2,5', '2', '1' and the
\* 26-letter alphabet with its three variants.
ValidKeys ==
  {<<>>, KW_3, <<120, 51>>, <<97, 98>>, <<98, 32, 99>>, <<51, 44, 53>>, <<50, 44, 53>>,
   <<50>>, <<49>>, KW_alphabet, KW_repeated, KW_spaced, KW_eszett}

InitValid ==
  /\ NoRun
  /\ ac_args \in ValidKeys \X {cipher_methods[i] : i \in 1..Len(cipher_methods)}
  /\ ac_result = <<>>

\* The call is_valid_keyword_for_cipher(keyword, cipher_method).
CallIsValid ==
  /\ ac_result = <<>>
  /\ ac_result' = <<is_valid_keyword_for_cipher(ac_args[1], ac_args[2])>>
  /\ UNCHANGED <<run_vars, ac_args>>

ValidSpec == InitValid /\ [][CallIsValid]_vars

\* ============== the key generators called on their own ==============

\* The entries of the keyword list: '3', '+3', '-3', '13', 'x' and the
\* 26-letter alphabet with its variants with a space and with a sharp s.
GeneratorEntries ==
  {KW_3, KW_plus3, <<45, 51>>, <<49, 51>>, <<120>>, KW_alphabet, KW_spaced, KW_eszett}

InitGenerate ==
  /\ NoRun
  /\ ac_args \in UNION {[1..n -> GeneratorEntries] : n \in 0..MaxPool}
  /\ ac_result = <<>>

\* The call generate_affine_combinations(keywords), made once; an outcome
\* names the function called and holds the list returned.
CallGenerateAffine ==
  /\ \A i \in 1..Len(ac_result) : ac_result[i].fn # "generate_affine_combinations"
  /\ ac_result' = Append(ac_result, [fn  |-> "generate_affine_combinations",
                                      val |-> generate_affine_combinations(ac_args)])
  /\ UNCHANGED <<run_vars, ac_args>>

\* The call generate_substitution_alphabet(keywords), made once.
CallGenerateSubstitution ==
  /\ \A i \in 1..Len(ac_result) : ac_result[i].fn # "generate_substitution_alphabet"
  /\ ac_result' = Append(ac_result, [fn  |-> "generate_substitution_alphabet",
                                      val |-> generate_substitution_alphabet(ac_args)])
  /\ UNCHANGED <<run_vars, ac_args>>

GenerateSpec == InitGenerate /\ [][CallGenerateAffine \/ CallGenerateSubstitution]_vars

\* ================== the engine called on its own ==================

\* run_comprehensive_decryption_tests is entered with a cipher text (':rorrE'
\* or 'ab'), a keyword string of one entry and the tested pairs of an empty
\* database.
InitEngine ==
  /\ pc = "running"
  /\ tab_name = "A"
  /\ ciphertext \in {<<58, 114, 111, 114, 114, 69>>, <<97, 98>>}
  /\ keywords \in {<<e>> : e \in {KW_3, KW_alphabet, KW_spaced, KW_eszett}}
  /\ tested_pairs = {}
  /\ tested_at_start = {}
  /\ db_tested_pairs = {}
  /\ db_results = {}
  /\ mi = 1
  /\ ki = 1
  /\ total_tests = 0
  /\ new_tests = 0
  /\ is_meaningful = FALSE
  /\ log = <<>>
  /\ displayed = <<>>
  /\ oracle_calls = <<>>
  /\ ac_args = <<>>
  /\ ac_result = <<>>

\* The engine's loops, then the save of its caller.
NextEngine ==
  \/ TestKeywordFree
  \/ TestAffine
  \/ TestSubstitution
  \/ TestKeyword
  \/ RunFinish

EngineSpec == InitEngine /\ [][NextEngine]_vars

\* ========== the transforms called on ciphertexts made for them ==========

\* The textbook encryptions are not in the library, which only decrypts:
\* they make the ciphertexts the transforms are called on.

\* Bounds of the model: the largest |a| and |b| of an affine key, the longest
\* text of distinct letters and the most rails.
MaxCoefficient == 27

\* Affine encryption: y = (a*x + b) mod 26 for the letter of value x.
affine_encrypt(text, a, b) ==
  [i \in 1..Len(text) |->
     IF IsLower(text[i]) THEN ((a * (text[i] - 97) + b) % 26) + 97
     ELSE IF IsUpper(text[i]) THEN ((a * (text[i] - 65) + b) % 26) + 65
     ELSE text[i]]

\* The keyword "a,b"
AffineKey(a, b) == py_str(a) \o <<44>> \o py_str(b)

\* 'abcdefghijklmnopqrstuvwxyz AZ!': every letter, and a non-letter
T_EveryLetter == S_Lowercase \o <<32, 65, 90, 33>>

\* affine_cipher on the encryption of every letter under each key "a,b".
AffineCalls ==
  {<<affine_encrypt(T_EveryLetter, a, b), AffineKey(a, b), M_affine>> :
     a \in (0 - MaxCoefficient)..MaxCoefficient,
     b \in (0 - MaxCoefficient)..MaxCoefficient}

MaxTextLen == 10

\* 'a', 'ab', 'abc', ...: the texts of distinct letters, in which every
\* character shows where it came from; and 'ab  ', which ends with blanks.
PlainTexts ==
  {SubSeq(S_Lowercase, 1, n) : n \in 0..MaxTextLen} \cup {<<97, 98, 32, 32>>}

\* The place (from 0) of keyword position i in the ascending alphabetical
\* order of the keyword's letters, equal letters leftmost first.
KeyRank(key, i) ==
  Cardinality({j \in 1..Len(key) : key[j] < key[i] \/ (key[j] = key[i] /\ j < i)})

\* Columnar encryption from the column of rank k on: the text is written row
\* by row under the keyword, and the columns are read top to bottom in the
\* ascending alphabetical order of their keyword letters.
RECURSIVE columnar_encrypt_from(_, _, _)
columnar_encrypt_from(text, key, k) ==
  IF k >= Len(key) THEN <<>>
  ELSE Pick(text, {j \in 1..Len(text) :
                     KeyRank(key, ((j - 1) % Len(key)) + 1) = k})
         \o columnar_encrypt_from(text, key, k + 1)

columnar_encrypt(text, keyword) ==
  columnar_encrypt_from(text, str_upper(str_join_split(keyword)), 0)

\* columnar_transposition_cipher on the encryption of each text under each
\* keyword: 'ab', 'ba', 'Key', 'bab', 'b a', whose column order is its own
\* inverse, and 'BCA', 'cab', 'bba', whose column order is not.
ColumnarCalls ==
  {<<columnar_encrypt(text, keyword), keyword, M_columnar_transposition>> :
     text \in PlainTexts,
     keyword \in {<<97, 98>>, <<98, 97>>, <<75, 101, 121>>, <<98, 97, 98>>, <<98, 32, 97>>,
                  <<66, 67, 65>>, <<99, 97, 98>>, <<98, 98, 97>>}}

MaxRails == 5

\* The rail (from 0) of the character at index i (from 0) of a text written
\* along the zig-zag over num_rails rails.
ZigZagRail(i, num_rails) ==
  LET cycle_pos == i % (2 * (num_rails - 1))
  IN  IF cycle_pos < num_rails THEN cycle_pos ELSE 2 * (num_rails - 1) - cycle_pos

\* Rail fence encryption from the given rail on: the text is written along
\* the zig-zag and the rails are read from the top one to the bottom one.
RECURSIVE rail_fence_encrypt_from(_, _, _)
rail_fence_encrypt_from(text, num_rails, rail) ==
  IF rail >= num_rails THEN <<>>
  ELSE Pick(text, {j \in 1..Len(text) : ZigZagRail(j - 1, num_rails) = rail})
         \o rail_fence_encrypt_from(text, num_rails, rail + 1)

rail_fence_encrypt(text, num_rails) == rail_fence_encrypt_from(text, num_rails, 0)

\* rail_fence_cipher on the encryption of each text over 2, 3, ... rails.
RailFenceCalls ==
  {<<rail_fence_encrypt(text, num_rails), py_str(num_rails), M_rail_fence>> :
     text \in PlainTexts, num_rails \in 2..MaxRails}

\* The Playfair square of a keyword, as the textbook builds it: the letters
\* of the keyword (blanks dropped, upper-cased, J written as I) and then of
\* the 25-letter alphabet, each where it occurs first.
PlayfairSquare(keyword) ==
  LET letters == str_replace(str_upper(str_join_split(keyword)), 74, 73)
                   \o S_PlayfairAlphabet
  IN  Pick(letters,
           {i \in 1..Len(letters) :
              /\ \E k \in 1..Len(S_PlayfairAlphabet) : S_PlayfairAlphabet[k] = letters[i]
              /\ \A j \in 1..(i - 1) : letters[j] # letters[i]})

\* The row and the column (from 0) of letter c in the square sq, and the
\* letter at a row and a column.
SquareRow(sq, c) == ((CHOOSE k \in 1..Len(sq) : sq[k] = c) - 1) \div 5

SquareCol(sq, c) == ((CHOOSE k \in 1..Len(sq) : sq[k] = c) - 1) % 5

SquareAt(sq, row, col) == sq[row * 5 + col + 1]

\* Playfair encryption of a digraph: letters of one row move one column to
\* the right, letters of one column one row down (both with wrap), and the
\* letters of a rectangle swap their columns.
playfair_encrypt_pair(sq, c1, c2) ==
  IF SquareRow(sq, c1) = SquareRow(sq, c2)
  THEN <<SquareAt(sq, SquareRow(sq, c1), (SquareCol(sq, c1) + 1) % 5),
         SquareAt(sq, SquareRow(sq, c2), (SquareCol(sq, c2) + 1) % 5)>>
  ELSE IF SquareCol(sq, c1) = SquareCol(sq, c2)
  THEN <<SquareAt(sq, (SquareRow(sq, c1) + 1) % 5, SquareCol(sq, c1)),
         SquareAt(sq, (SquareRow(sq, c2) + 1) % 5, SquareCol(sq, c2))>>
  ELSE <<SquareAt(sq, SquareRow(sq, c1), SquareCol(sq, c2)),
         SquareAt(sq, SquareRow(sq, c2), SquareCol(sq, c1))>>

\* Playfair encryption of a text of digraphs in the square sq.
playfair_encrypt(text, sq) ==
  [q \in 1..Len(text) |->
     IF q % 2 = 1 THEN playfair_encrypt_pair(sq, text[q], text[q + 1])[1]
     ELSE playfair_encrypt_pair(sq, text[q - 1], text[q])[2]]

\* The Playfair keywords: 'KEYWORD', 'playfair example' and 'Jazz'.
PlayfairKeys ==
  {<<75, 69, 89, 87, 79, 82, 68>>,
   <<112, 108, 97, 121, 102, 97, 105, 114, 32, 101, 120, 97, 109, 112, 108, 101>>,
   <<74, 97, 122, 122>>}

KeySquares == [keyword \in PlayfairKeys |-> PlayfairSquare(keyword)]

\* 'HIDETHEGOLDINTHETREXESTUMP'
T_HideTheGold ==
  <<72, 73, 68, 69, 84, 72, 69, 71, 79, 76, 68, 73, 78, 84, 72, 69, 84, 82, 69, 88, 69, 83, 84, 85, 77, 80>>

\* The Playfair plaintexts: every digraph of two different letters of the
\* 25-letter alphabet, and a text of thirteen digraphs.
PlayfairTexts ==
  {<<S_PlayfairAlphabet[i], S_PlayfairAlphabet[j]>> :
     <<i, j>> \in {ij \in (1..Len(S_PlayfairAlphabet)) \X (1..Len(S_PlayfairAlphabet)) :
                     ij[1] # ij[2]}}
    \cup {T_HideTheGold}

\* playfair_cipher on the encryption of each text under each keyword.
PlayfairCalls ==
  {<<playfair_encrypt(text, KeySquares[keyword]), keyword, M_playfair>> :
     text \in PlayfairTexts, keyword \in PlayfairKeys}

RoundTripCalls == AffineCalls \cup ColumnarCalls \cup RailFenceCalls \cup PlayfairCalls

InitRoundTrip ==
  /\ NoRun
  /\ ac_args \in RoundTripCalls
  /\ ac_result = <<>>

RoundTripSpec == InitRoundTrip /\ [][NextTransform]_vars

\* ============================ properties ============================

\* The (key, method) pairs the run's loops iterate over.
CandidatePairs ==
  UNION {{<<Candidates(cipher_methods[m], keywords)[i], cipher_methods[m]>> :
            i \in 1..Len(Candidates(cipher_methods[m], keywords))} :
         m \in 1..Len(cipher_methods)}

\* The methods whose keys the engine validates: those of the raw keyword loop.
RawKeywordMethod(m) == ~KeywordFree(m) /\ m \notin {M_affine, M_simple_substitution}

PassesValidation(pair) ==
  RawKeywordMethod(pair[2]) => is_valid_keyword_for_cipher(pair[1], pair[2])

\* The positions of the run's record where pair met the given fate.
EventsOf(kind, pair) == {i \in 1..Len(log) : log[i] = Event(kind, pair[1], pair[2])}

EventsOfKind(kind) == {i \in 1..Len(log) : log[i].kind = kind}

\* The displayed outcomes of pair.
RowsOf(pair) ==
  {i \in 1..Len(displayed) :
     displayed[i].keyword = pair[1] /\ displayed[i].cipher_method = pair[2]}

\* '3,3', the affine key the entries '3' and '+3' both generate
KeyThreeThree == <<51, 44, 51>>

\* C1: in a run, a candidate key that is not in the tested set when the run
\* starts and that passes validation is dispatched and displayed exactly once
\* (never twice while the run goes on, once when it has finished), whatever
\* entries the pool repeats; a dispatched key is in the tested set from then on.
C1_ExactlyOneOutcome ==
  /\ \A i \in 1..Len(log) :
       log[i].kind = "tested" => <<log[i].keyword, log[i].cipher_method>> \in tested_pairs
  /\ pc \in {"running", "finished"} =>
       \A pair \in CandidatePairs :
         /\ Cardinality(EventsOf("tested", pair)) <= 1
         /\ Cardinality(RowsOf(pair)) = Cardinality(EventsOf("tested", pair))
  /\ pc = "finished" =>
       \A pair \in CandidatePairs :
         (pair \notin tested_at_start /\ PassesValidation(pair))
           => Cardinality(EventsOf("tested", pair)) = 1

\* A finished run over the pool ['3', '+3'], which generates '3,3' four times:
\* one outcome, three skips.
C1_Witness ==
  /\ pc = "finished"
  /\ keywords = <<KW_3, KW_plus3>>
  /\ <<KeyThreeThree, M_affine>> \notin tested_at_start
  /\ Cardinality(EventsOf("tested", <<KeyThreeThree, M_affine>>)) = 1
  /\ Cardinality(EventsOf("skipped", <<KeyThreeThree, M_affine>>)) = 3

\* C2: an engine step at a candidate key that is in the tested set records a
\* skip and nothing else: no dispatch, no outcome displayed or saved, the
\* tested set as it was, and the skipped tally (total_tests - new_tests) one
\* higher.
C2_SkipAlreadyTested ==
  [][(AtCandidate /\ <<current_key, current_method>> \in tested_pairs)
       => /\ log' = Append(log, Event("skipped", current_key, current_method))
          /\ displayed' = displayed
          /\ oracle_calls' = oracle_calls
          /\ db_results' = db_results
          /\ tested_pairs' = tested_pairs
          /\ new_tests' = new_tests
          /\ total_tests' - new_tests' = (total_tests - new_tests) + 1]_vars

\* A finished run over ['3'] that started with ('3', 'caesar') tested: Caesar
\* gave no outcome and one skip.
C2_Witness ==
  /\ pc = "finished"
  /\ keywords = <<KW_3>>
  /\ <<KW_3, M_caesar>> \in tested_at_start
  /\ Cardinality(EventsOf("skipped", <<KW_3, M_caesar>>)) = 1
  /\ EventsOf("tested", <<KW_3, M_caesar>>) = {}
  /\ RowsOf(<<KW_3, M_caesar>>) = {}

\* C3: no step of a running engine removes a pair from the tested set.
C3_TestedSetGrows ==
  [][pc = "running" => tested_pairs \subseteq tested_pairs']_vars

\* A run that started from a non-empty tested set and has added to it.
C3_Witness ==
  /\ pc = "running"
  /\ tested_at_start # {}
  /\ tested_at_start \subseteq tested_pairs
  /\ tested_pairs # tested_at_start

\* C4: an engine step at a raw keyword that is not in the tested set and that
\* is_valid_keyword_for_cipher refuses adds the pair to the tested set and
\* records the rejection: no dispatch, nothing displayed, nothing saved.
C4_InvalidMarkedNotDispatched ==
  [][(/\ AtCandidate
      /\ RawKeywordMethod(current_method)
      /\ <<current_key, current_method>> \notin tested_pairs
      /\ ~is_valid_keyword_for_cipher(current_key, current_method))
       => /\ tested_pairs' = tested_pairs \cup {<<current_key, current_method>>}
          /\ log' = Append(log, Event("invalid", current_key, current_method))
          /\ displayed' = displayed
          /\ oracle_calls' = oracle_calls
          /\ db_results' = db_results
          /\ new_tests' = new_tests]_vars

\* The alphabet keyword was refused for Caesar: marked, nothing displayed.
C4_Witness ==
  /\ pc \in {"running", "finished"}
  /\ <<KW_alphabet, M_caesar>> \notin tested_at_start
  /\ EventsOf("invalid", <<KW_alphabet, M_caesar>>) # {}
  /\ <<KW_alphabet, M_caesar>> \in tested_pairs
  /\ RowsOf(<<KW_alphabet, M_caesar>>) = {}

\* The enumeration order the outcomes are to follow.
EnumerationOrder ==
  <<M_caesar, M_rot13, M_atbash, M_vigenere, M_beaufort, M_simple_substitution,
    M_affine, M_reverse, M_columnar_transposition, M_rail_fence, M_playfair>>

MethodPlace(m) == CHOOSE i \in 1..Len(EnumerationOrder) : EnumerationOrder[i] = m

\* The place of a key in the pool, or in the generated keys of affine and
\* substitution: its first one.
KeyPlace(k, m) ==
  CHOOSE i \in 1..Len(Candidates(m, keywords)) :
    /\ Candidates(m, keywords)[i] = k
    /\ \A j \in 1..(i - 1) : Candidates(m, keywords)[j] # k

\* Outcome r1 comes before outcome r2 in method order, then key order.
OutcomeBefore(r1, r2) ==
  \/ MethodPlace(r1.cipher_method) < MethodPlace(r2.cipher_method)
  \/ /\ r1.cipher_method = r2.cipher_method
     /\ KeyPlace(r1.keyword, r1.cipher_method) < KeyPlace(r2.keyword, r2.cipher_method)

\* C5: the outcomes displayed by a run are in method enumeration order and,
\* within a method, in pool (or generation) order; when the run has finished
\* they are the outcomes of the candidate keys that were not tested at the
\* start and pass validation, each with the text apply_cipher returns: the
\* sequence is a function of the ciphertext, the pool and the starting set.
C5_OutcomeOrder ==
  pc \in {"running", "finished"} =>
    /\ \A i, j \in 1..Len(displayed) :
         i < j => OutcomeBefore(displayed[i], displayed[j])
    /\ \A i \in 1..Len(displayed) :
         displayed[i].decrypted_text
           = apply_cipher(ciphertext, displayed[i].keyword, displayed[i].cipher_method)
    /\ pc = "finished" =>
         {<<displayed[i].keyword, displayed[i].cipher_method>> : i \in 1..Len(displayed)}
           = {pair \in CandidatePairs :
                pair \notin tested_at_start /\ PassesValidation(pair)}

\* A finished run over ['+3', '3']: Caesar with '+3', Caesar with '3', ROT13.
C5_Witness ==
  /\ pc = "finished"
  /\ keywords = <<KW_plus3, KW_3>>
  /\ Len(displayed) >= 3
  /\ displayed[1].keyword = KW_plus3 /\ displayed[1].cipher_method = M_caesar
  /\ displayed[2].keyword = KW_3 /\ displayed[2].cipher_method = M_caesar
  /\ displayed[3].keyword = <<>> /\ displayed[3].cipher_method = M_rot13

C7_KeywordFreeAttemptedOnce ==
  (pc \in {"finished", "rejected"} /\ ciphertext # <<>>) =>
    \A m \in {M_rot13, M_atbash, M_reverse} :
      /\ <<<<>>, m>> \notin tested_at_start
           => Cardinality(EventsOf("tested", <<<<>>, m>>)) = 1
      /\ \A i \in 1..Len(log) : log[i].cipher_method = m => log[i].keyword = <<>>

\* C8: when a run has finished, every candidate key it considered is in the
\* tested set, which is the set saved; and a finished run that started with
\* every candidate key of its pool tested (as the next run over the same pool
\* does) has produced no outcome and left the tested set as it was.
C8_SecondRunIdle ==
  /\ pc = "finished" =>
       /\ CandidatePairs \subseteq tested_pairs
       /\ \A i \in 1..Len(log) : <<log[i].keyword, log[i].cipher_method>> \in tested_pairs
       /\ db_tested_pairs = tested_pairs
  /\ (pc = "finished" /\ CandidatePairs \subseteq tested_at_start) =>
       /\ displayed = <<>>
       /\ oracle_calls = <<>>
       /\ new_tests = 0
       /\ tested_pairs = tested_at_start
       /\ EventsOfKind("skipped") = 1..Len(log)

\* A finished run over ['3', alphabet] that found every candidate key tested.
C8_Witness ==
  /\ pc = "finished"
  /\ keywords = <<KW_3, KW_alphabet>>
  /\ CandidatePairs \subseteq tested_at_start
  /\ total_tests > 0
  /\ displayed = <<>>
  /\ tested_pairs = tested_at_start

\* C9 as stated: a call of apply_cipher never raises, whatever strings the
\* ciphertext, the keyword and the method name are.
C9_NeverRaises ==
  ac_result # <<>> => ac_result[1].exc = "none"

\* The normalized names apply_cipher recognises.
RecognizedMethods ==
  {M_caesar, M_rot13, M_atbash, M_vigenere, M_beaufort, N_simplesubstitution,
   N_substitution, N_monoalphabetic, M_affine, M_reverse, N_columnartransposition,
   N_columnar, N_railfence, N_zigzag, M_playfair}

\* C10 as stated: for a non-empty ciphertext, any keyword (empty or not) and a
\* method name that normalizes to no recognised cipher or alias, what
\* apply_cipher returns is the unknown-method result that lists the valid
\* method names.
C10_UnknownMethodListed ==
  (/\ ac_result # <<>>
   /\ ac_result[1].exc = "none"
   /\ ac_args[1] # <<>>
   /\ normalize_method(ac_args[3]) \notin RecognizedMethods)
    => ac_result[1] = Ok(S_UnknownMethod \o normalize_method(ac_args[3]) \o S_Available
                           \o str_join(S_CommaSpace, available_ciphers))

\* C11 as stated: for reverse, rot13 and atbash the result of apply_cipher is
\* the same for every keyword argument (the one the empty keyword gives); for
\* every cipher that takes a key, an empty keyword yields the error result
\* that names the missing keyword, which is not what the transform answers.
C11_KeywordIgnoredOrRejected ==
  ac_result # <<>> =>
    /\ KeywordFree(normalize_method(ac_args[3]))
         => ac_result[1] = apply_cipher_call(ac_args[1], <<>>, ac_args[3])
    /\ (/\ normalize_method(ac_args[3]) \in RecognizedMethods
        /\ ~KeywordFree(normalize_method(ac_args[3]))
        /\ ac_args[1] # <<>>
        /\ ac_args[2] = <<>>)
         => ac_result[1] = Ok(S_ErrorPrefix \o str_title(normalize_method(ac_args[3]))
                                \o S_RequiresKeyword)

\* The transform of a cipher that takes a key accepts the keyword: called on
\* the text 'ab' with it, the transform returns a text.  (Caesar takes the
\* integer apply_cipher makes of the keyword.)
KeyAccepted(keyword, cipher_method) ==
  IF cipher_method = M_caesar THEN py_int(keyword).ok
  ELSE IF cipher_method \in {M_vigenere, M_beaufort}
       THEN vigenere_cipher(<<97, 98>>, keyword).exc = "none"
            /\ beaufort_cipher(<<97, 98>>, keyword).exc = "none"
  ELSE IF cipher_method = M_simple_substitution
       THEN simple_substitution_cipher(<<97, 98>>, keyword).exc = "none"
  ELSE IF cipher_method = M_affine THEN affine_cipher(<<97, 98>>, keyword).exc = "none"
  ELSE IF cipher_method = M_columnar_transposition
       THEN columnar_transposition_cipher(<<97, 98>>, keyword).exc = "none"
  ELSE IF cipher_method = M_rail_fence THEN rail_fence_cipher(<<97, 98>>, keyword).exc = "none"
  ELSE playfair_cipher(<<97, 98>>, keyword).exc = "none"

\* C12 as stated: for every cipher that takes a key and every key string,
\* is_valid_keyword_for_cipher returns true if and only if the cipher's
\* transform accepts the key, SimpleSubstitution keys with repeated letters
\* or embedded spaces included.
C12_ValidMirrorsTransform ==
  (ac_result # <<>> /\ ~KeywordFree(ac_args[2]))
    => (ac_result[1] <=> KeyAccepted(ac_args[1], ac_args[2]))

\* The outcomes of the calls of the generator fn.
GeneratedBy(fn) == SelectSeq(ac_result, LAMBDA r : r.fn = fn)

\* The places of the pool whose entry parses as an integer, and its value.
IntegerPlaces(pool) == {i \in 1..Len(pool) : py_int(pool[i]).ok}

IntegerAt(pool, i) == py_int(pool[i]).val

\* n is coprime to 26, judged by its absolute value: odd and no multiple of 13.
CoprimeTo26(n) ==
  LET m == IF n < 0 THEN 0 - n ELSE n
  IN  m % 2 = 1 /\ m % 13 # 0

\* The k-th smallest element of a set of numbers (k from 1).
NthOf(S, k) == CHOOSE x \in S : Cardinality({y \in S : y < x}) = k - 1

\* C13: generate_affine_combinations(pool) returns, a-major and then b, both
\* in pool order, the string "a,b" for every pool entry that parses as an
\* integer a coprime to 26 (by its absolute value) and every pool entry that
\* parses as an integer b, the entry a itself included, a and b written in
\* decimal: nothing for an entry that is no integer, and no string whose a is
\* not coprime to 26.
C13_AffineCombinations ==
  \A k \in 1..Len(GeneratedBy("generate_affine_combinations")) :
    LET combos == GeneratedBy("generate_affine_combinations")[k].val
        places == IntegerPlaces(ac_args)
        first  == {i \in places : CoprimeTo26(IntegerAt(ac_args, i))}
    IN  /\ Len(combos) = Cardinality(first) * Cardinality(places)
        /\ \A x \in 1..Cardinality(first), y \in 1..Cardinality(places) :
             combos[(x - 1) * Cardinality(places) + y]
               = py_str(IntegerAt(ac_args, NthOf(first, x))) \o <<44>>
                   \o py_str(IntegerAt(ac_args, NthOf(places, y)))
        /\ \A j \in 1..Len(combos) :
             CoprimeTo26(py_int(SplitFirstComma(combos[j])[1]).val)

\* The pool ['-3', '13']: '-3,-3' and '-3,13', nothing with a = 13.
C13_Witness ==
  /\ ac_args = <<<<45, 51>>, <<49, 51>>>>
  /\ Len(GeneratedBy("generate_affine_combinations")) = 1
  /\ GeneratedBy("generate_affine_combinations")[1].val
       = <<<<45, 51, 44, 45, 51>>, <<45, 51, 44, 49, 51>>>>

\* C14 as stated: generate_substitution_alphabet(pool) returns, verbatim and
\* in pool order, exactly the pool entries that are 26 letters long with 26
\* distinct letters case-insensitively, and simple_substitution_cipher
\* accepts every entry returned.
C14_SubstitutionAlphabets ==
  \A k \in 1..Len(GeneratedBy("generate_substitution_alphabet")) :
    LET alphabets == GeneratedBy("generate_substitution_alphabet")[k].val
    IN  /\ alphabets
             = SelectSeq(ac_args,
                         LAMBDA e : /\ Len(e) = 26
                                    /\ \A i \in 1..Len(e) : IsAlphaChar(e[i])
                                    /\ Cardinality({LowerChar(e[i]) : i \in 1..Len(e)}) = 26)
        /\ \A j \in 1..Len(alphabets) :
             simple_substitution_cipher(<<97, 98>>, alphabets[j]).exc = "none"

\* The dispatch reports an error for the call: an exception leaves the try
\* block of apply_cipher (a validation error, or an unexpected one), or the
\* block returns one of its own error messages (no keyword, no numeric
\* keyword for Caesar, unknown method).
DispatchReportsError(text, keyword, cipher_method) ==
  \/ apply_cipher_try(text, keyword, normalize_method(cipher_method)).exc # "none"
  \/ /\ ~KeywordFree(normalize_method(cipher_method))
     /\ \/ keyword = <<>>
        \/ normalize_method(cipher_method) = M_caesar /\ ~py_int(keyword).ok
        \/ normalize_method(cipher_method) \notin RecognizedMethods

\* The places of the outcomes displayed for calls that reported no error.
PlaintextRows ==
  {i \in 1..Len(displayed) :
     ~DispatchReportsError(ciphertext, displayed[i].keyword, displayed[i].cipher_method)}

\* C15 as stated: the attempt behind a displayed outcome is treated as failed
\* (not evaluated, not saved as a result) if and only if the dispatch reported
\* a validation or an unexpected error: a text a transform returned is
\* evaluated and saved whatever it holds, and the message of an unexpected
\* fault is neither.
C15_FailedIffErrorReported ==
  /\ \A i \in 1..Len(displayed) :
       i \in PlaintextRows
         <=> [tab_name |-> tab_name, keyword |-> displayed[i].keyword,
              decrypted_text |-> displayed[i].decrypted_text,
              cipher_method |-> displayed[i].cipher_method] \in db_results
  /\ Len(oracle_calls) = Cardinality(PlaintextRows)

\* The first call was handed to the method's transform, which returned a text.
TransformRan ==
  /\ ac_result # <<>>
  /\ ac_result[1].exc = "none"
  /\ \/ KeywordFree(ac_args[3])
     \/ ac_args[2] # <<>> /\ (ac_args[3] = M_caesar => py_int(ac_args[2]).ok)

\* Every character of the first call's text that is no letter is at the same
\* place of the text returned, which is as long.
NonLettersStay ==
  /\ Len(ac_result[1].val) = Len(ac_args[1])
  /\ \A i \in 1..Len(ac_args[1]) :
       ~IsAlphaChar(ac_args[1][i]) => ac_result[1].val[i] = ac_args[1][i]

LetterWise ==
  {M_caesar, M_rot13, M_atbash, M_vigenere, M_beaufort, M_simple_substitution, M_affine}

T_Khoor == <<75, 104, 111, 111, 114, 32, 90, 114, 117, 111, 103>>   \* 'Khoor Zruog'

T_Hello == <<72, 101, 108, 108, 111, 32, 87, 111, 114, 108, 100>>   \* 'Hello World'

\* The textbook Caesar encryption: every letter shift places on in its ring.
caesar_encrypt(text, shift) ==
  [i \in 1..Len(text) |->
     IF IsLower(text[i]) THEN 97 + ((text[i] - 97 + shift) % 26)
     ELSE IF IsUpper(text[i]) THEN 65 + ((text[i] - 65 + shift) % 26)
     ELSE text[i]]

\* C17: for every integer shift, negative or above 25 as well, Caesar
\* decryption puts every letter (p - shift) mod 26 places into the ring of
\* its case and leaves the other characters; it undoes the encryption with
\* the same shift; and apply_cipher('Khoor Zruog', '3', 'caesar') returns
\* 'Hello World'.
C17_CaesarShiftsBack ==
  (ac_result # <<>> /\ ac_args[3] = M_caesar /\ py_int(ac_args[2]).ok) =>
    /\ ac_result[1].exc = "none"
    /\ Len(ac_result[1].val) = Len(ac_args[1])
    /\ \A i \in 1..Len(ac_args[1]) :
         ac_result[1].val[i]
           = IF IsLower(ac_args[1][i])
             THEN 97 + ((ac_args[1][i] - 97 - py_int(ac_args[2]).val) % 26)
             ELSE IF IsUpper(ac_args[1][i])
             THEN 65 + ((ac_args[1][i] - 65 - py_int(ac_args[2]).val) % 26)
             ELSE ac_args[1][i]
    /\ caesar_cipher(caesar_encrypt(ac_args[1], py_int(ac_args[2]).val),
                     py_int(ac_args[2]).val) = Ok(ac_args[1])
    /\ (ac_args[1] = T_Khoor /\ ac_args[2] = KW_3) =>
         /\ ac_result[1].val = T_Hello
         /\ apply_cipher_call(T_Khoor, KW_3, M_caesar) = Ok(T_Hello)

\* 'Khoor Zruog' with the shift 3: 'Hello World'.
C17_Witness ==
  /\ ac_args = <<T_Khoor, KW_3, M_caesar>>
  /\ ac_result # <<>>
  /\ ac_result[1] = Ok(T_Hello)

\* The number of letters a-z, A-Z before place i of the text.
KeystreamIndex(text, i) ==
  Cardinality({j \in 1..(i - 1) : text[j] \in (97..122) \cup (65..90)})

\* The shift the n-th letter of a text gets (n from 0): the place in the
\* alphabet of the keyword letter n mod len(keyword), the keyword taken
\* without its spaces and in lower case.
KeyShift(keyword, n) ==
  LET letters == SelectSeq(keyword, LAMBDA c : c # 32)
  IN  LowerChar(letters[(n % Len(letters)) + 1]) - 97

\* The textbook Vigenere encryption.
vigenere_encrypt(text, keyword) ==
  [i \in 1..Len(text) |->
     IF IsLower(text[i])
     THEN 97 + ((text[i] - 97 + KeyShift(keyword, KeystreamIndex(text, i))) % 26)
     ELSE IF IsUpper(text[i])
     THEN 65 + ((text[i] - 65 + KeyShift(keyword, KeystreamIndex(text, i))) % 26)
     ELSE text[i]]

\* C18: for an alphabetic keyword, Vigenere decryption shifts the letter that
\* has i letters before it back by keyword[i mod len(keyword)] in the ring of
\* its case; a character that is no letter is kept and takes no key letter;
\* and the decryption undoes the encryption with the same keyword.
C18_VigenereKeystream ==
  (ac_result # <<>> /\ ac_args[3] = M_vigenere
   /\ str_isalpha(str_remove(ac_args[2], 32))) =>
    /\ ac_result[1].exc = "none"
    /\ Len(ac_result[1].val) = Len(ac_args[1])
    /\ \A i \in 1..Len(ac_args[1]) :
         ac_result[1].val[i]
           = IF IsLower(ac_args[1][i])
             THEN 97 + ((ac_args[1][i] - 97
                         - KeyShift(ac_args[2], KeystreamIndex(ac_args[1], i))) % 26)
             ELSE IF IsUpper(ac_args[1][i])
             THEN 65 + ((ac_args[1][i] - 65
                         - KeyShift(ac_args[2], KeystreamIndex(ac_args[1], i))) % 26)
             ELSE ac_args[1][i]
    /\ vigenere_cipher(vigenere_encrypt(ac_args[1], ac_args[2]), ac_args[2])
         = Ok(ac_args[1])

\* Vigenere on 'Ab!c' with the key 'b c': the 'c' after the '!' is the third
\* letter and takes the key letter 'b', so the text returned is 'Zz!b'.
C18_Witness ==
  /\ ac_args = <<<<65, 98, 33, 99>>, <<98, 32, 99>>, M_vigenere>>
  /\ ac_result # <<>>
  /\ ac_result[1] = Ok(<<90, 122, 33, 98>>)

\* C19: Beaufort (with the same keyword), Atbash, Rot13 and Reverse applied
\* to the text they returned give back the text they were given.
C19_SelfInverse ==
  (/\ Len(ac_result) = 2
   /\ ac_args[3] \in {M_beaufort, M_atbash, M_rot13, M_reverse}
   /\ ac_args[3] = M_beaufort => ~NotAlphabeticKeyword(ac_args[2]))
    => ac_result[2] = Ok(ac_args[1])

\* Beaufort twice on 'Ab!c' with the key 'Key': 'Kd!w', then 'Ab!c'.
C19_Witness ==
  /\ ac_args = <<<<65, 98, 33, 99>>, <<75, 101, 121>>, M_beaufort>>
  /\ Len(ac_result) = 2
  /\ ac_result[1] = Ok(<<75, 100, 33, 119>>)
  /\ ac_result[2] = Ok(<<65, 98, 33, 99>>)

\* The alphabet is a permutation of the 26 letters, in either case.
IsPermutationAlphabet(alphabet) ==
  /\ Len(alphabet) = 26
  /\ {LowerChar(alphabet[p]) : p \in 1..26} = 97..122

\* The textbook substitution: the letter at place p of the standard alphabet
\* becomes the letter at place p of the substitution alphabet, in its case.
substitution_encrypt(text, alphabet) ==
  [i \in 1..Len(text) |->
     IF IsLower(text[i]) THEN LowerChar(alphabet[text[i] - 96])
     ELSE IF IsUpper(text[i]) THEN UpperChar(alphabet[text[i] - 64])
     ELSE text[i]]

\* C20: for a 26-letter alphabet that is a permutation of the letters,
\* simple_substitution_cipher turns the lower-case (upper-case) letter at
\* place p of the substitution alphabet into the lower-case (upper-case)
\* letter at place p of the standard alphabet and keeps every other character,
\* so it undoes the textbook encryption under the same alphabet.
C20_SubstitutionTable ==
  (ac_result # <<>> /\ ac_args[3] = M_simple_substitution
   /\ IsPermutationAlphabet(ac_args[2])) =>
    /\ ac_result[1].exc = "none"
    /\ Len(ac_result[1].val) = Len(ac_args[1])
    /\ \A i \in 1..Len(ac_args[1]) :
         /\ \A p \in 1..26 :
              /\ ac_args[1][i] = LowerChar(ac_args[2][p]) => ac_result[1].val[i] = 96 + p
              /\ ac_args[1][i] = UpperChar(ac_args[2][p]) => ac_result[1].val[i] = 64 + p
         /\ ~(IsLower(ac_args[1][i]) \/ IsUpper(ac_args[1][i]))
              => ac_result[1].val[i] = ac_args[1][i]
    /\ simple_substitution_cipher(substitution_encrypt(ac_args[1], ac_args[2]), ac_args[2])
         = Ok(ac_args[1])

\* 'Ab!c' under 'QWERTYUIOPASDFGHJKLZXCVBNM': 'A' is its 11th letter, 'b' its
\* 24th and 'c' its 22nd, so the text returned is 'Kx!v'.
C20_Witness ==
  /\ ac_args = <<<<65, 98, 33, 99>>, KW_alphabet, M_simple_substitution>>
  /\ ac_result # <<>>
  /\ ac_result[1] = Ok(<<75, 120, 33, 118>>)


\* The integers a and b of the affine key "a,b" the call was given.
AffineCoefficients ==
  CHOOSE ab \in ((0 - MaxCoefficient)..MaxCoefficient) \X ((0 - MaxCoefficient)..MaxCoefficient) :
    AffineKey(ab[1], ab[2]) = ac_args[2]

\* a has no common factor with 26 (stated without the library's gcd)
Coprime26(a) == \A d \in 2..26 : ~(a % d = 0 /\ 26 % d = 0)

\* C21: for every integer a coprime to 26, positive or negative, and every
\* integer b, mod_inverse(a, 26) lies in 0..25 and a * mod_inverse(a, 26) is 1
\* modulo 26, and affine_cipher with the key "a,b" returns the text whose
\* encryption y = (a*x + b) mod 26 it was given, letter for letter; for a not
\* coprime to 26 the call raises and returns no text.
C21_AffineInverts ==
  (ac_args # <<>> /\ ac_args[3] = M_affine /\ ac_result # <<>>) =>
    \E ab \in {AffineCoefficients} :
      IF Coprime26(ab[1])
      THEN /\ mod_inverse(ab[1], 26).exc = "none"
           /\ mod_inverse(ab[1], 26).val \in 0..25
           /\ (ab[1] * mod_inverse(ab[1], 26).val) % 26 = 1
           /\ ac_result[1] = Ok(T_EveryLetter)
      ELSE ac_result[1].exc = "CipherError"

\* affine_cipher has undone the key "-3,5": a negative a coprime to 26.
C21_Witness ==
  /\ ac_args # <<>>
  /\ ac_args[2] = <<45, 51, 44, 53>>
  /\ ac_args[3] = M_affine
  /\ ac_args[1] # T_EveryLetter
  /\ ac_result # <<>>
  /\ ac_result[1] = Ok(T_EveryLetter)

\* The call was columnar_transposition_cipher on a ciphertext, with a keyword.
ColumnarRan ==
  /\ ac_args # <<>>
  /\ ac_args[3] = M_columnar_transposition
  /\ ac_result # <<>>

\* The keyword of the call as the transform cleans it.
CleanKey == str_upper(str_join_split(ac_args[2]))

\* C22 as stated: for every alphabetic keyword, whatever the order of its
\* letters and with or without repeated letters, and every text whose length
\* is a multiple of the keyword's length, columnar_transposition_cipher
\* returns the text when called on the text's columnar encryption under the
\* keyword.
C22_ColumnarRoundTrip ==
  ColumnarRan =>
    \A text \in PlainTexts :
      (/\ Len(text) % Len(CleanKey) = 0
       /\ columnar_encrypt(text, ac_args[2]) = ac_args[1])
        => ac_result[1] = Ok(text)

\* The grid cell (row, col), both from 0, as C23 fills it: the column whose
\* keyword letter has rank k holds the k-th block of num_rows characters.
RankedCell(row, col) ==
  LET num_rows == (Len(ac_args[1]) + Len(CleanKey) - 1) \div Len(CleanKey)
      t        == KeyRank(CleanKey, col + 1) * num_rows + row
  IN  IF t < Len(ac_args[1]) THEN <<ac_args[1][t + 1]>> ELSE <<>>

\* C23 as stated: the text columnar_transposition_cipher returns is the grid
\* read row by row, where the k-th consecutive block of the ciphertext stands
\* in the column whose keyword letter has ascending alphabetical rank k (equal
\* letters ranked leftmost first).
C23_BlockToRankedColumn ==
  ColumnarRan =>
    ac_result[1] =
      Ok(str_join(<<>>, [n \in 1..(((Len(ac_args[1]) + Len(CleanKey) - 1) \div Len(CleanKey))
                                   * Len(CleanKey)) |->
                           RankedCell((n - 1) \div Len(CleanKey), (n - 1) % Len(CleanKey))]))

\* C24 as stated: the text columnar_transposition_cipher returns has the
\* length of the ciphertext and holds each of its characters as often as the
\* ciphertext does: no character of the ciphertext is dropped.
C24_ColumnarRearranges ==
  ColumnarRan =>
    /\ ac_result[1].exc = "none"
    /\ Len(ac_result[1].val) = Len(ac_args[1])
    /\ \A c \in {ac_args[1][i] : i \in 1..Len(ac_args[1])} :
         Cardinality({i \in 1..Len(ac_result[1].val) : ac_result[1].val[i] = c})
           = Cardinality({i \in 1..Len(ac_args[1]) : ac_args[1][i] = c})

\* The call was rail_fence_cipher on a ciphertext, with a rail count.
RailFenceRan ==
  /\ ac_args # <<>>
  /\ ac_args[3] = M_rail_fence
  /\ ac_result # <<>>

\* C25: for every rail count r >= 2 and every text, of a length below r,
\* equal to r, a multiple of r or any other, rail_fence_cipher returns the
\* text when called on the text's zig-zag encryption over r rails; a
\* ciphertext no longer than r is returned as it is.  (Each rail then took
\* as many characters as the zig-zag puts on it, and the rails together the
\* whole text.)
C25_RailFenceRoundTrip ==
  RailFenceRan =>
    /\ \A text \in PlainTexts :
         rail_fence_encrypt(text, py_int(ac_args[2]).val) = ac_args[1]
           => ac_result[1] = Ok(text)
    /\ Len(ac_args[1]) <= py_int(ac_args[2]).val => ac_result[1] = Ok(ac_args[1])
    /\ ac_result[1].exc = "none" /\ Len(ac_result[1].val) = Len(ac_args[1])

\* rail_fence_cipher has returned 'abcdefghij' from its encryption over three
\* rails, 'aeibdfhjcg': two full cycles of four and a remainder of two.
C25_Witness ==
  /\ RailFenceRan
  /\ ac_args[1] = <<97, 101, 105, 98, 100, 102, 104, 106, 99, 103>>
  /\ ac_args[2] = <<51>>
  /\ ac_result[1] = Ok(SubSeq(S_Lowercase, 1, 10))

\* The cleaned form of a Playfair text: its letters, upper-cased, J as I.
CleanedText(text) == str_replace(str_upper(SelectSeq(text, IsAlphaChar)), 74, 73)

\* apply_cipher was called for Playfair on a text whose cleaned form has an
\* odd number of letters.
PlayfairOddCall ==
  /\ ac_result # <<>>
  /\ normalize_method(ac_args[3]) = M_playfair
  /\ Len(CleanedText(ac_args[1])) % 2 = 1

\* C26 as stated: apply_cipher for Playfair on a text whose cleaned form has
\* odd length returns an error result, whatever the keyword is: with an
\* alphabetic keyword the validation error of the odd length, and never a
\* plaintext.
C26_PlayfairOddIsError ==
  PlayfairOddCall =>
    /\ ac_result[1].exc = "none"
    /\ str_startswith(ac_result[1].val, S_ErrorPrefix)
    /\ (ac_args[2] # <<>> /\ ~NotAlphabeticKeyword(ac_args[2]))
         => ac_result[1].val = S_ErrorPrefix \o S_PlayfairEvenMsg

T_TFJJQ == <<84, 70, 74, 74, 81>>

T_KEYWORD == <<75, 69, 89, 87, 79, 82, 68>>

\* apply_cipher was called with "TFJJQ", a name of Playfair and "KEYWORD".
TfjjqCall ==
  /\ ac_result # <<>>
  /\ ac_args[1] = T_TFJJQ
  /\ ac_args[2] = T_KEYWORD
  /\ normalize_method(ac_args[3]) = M_playfair

\* C27 as stated: apply_cipher("TFJJQ", "KEYWORD", playfair) returns a
\* plaintext of digraph pairs (an even number of letters of the grid), which
\* is no error result.
C27_TfjjqDecrypts ==
  TfjjqCall =>
    /\ ac_result[1].exc = "none"
    /\ ~str_startswith(ac_result[1].val, S_ErrorPrefix)
    /\ Len(ac_result[1].val) % 2 = 0
    /\ \A i \in 1..Len(ac_result[1].val) :
         \E k \in 1..Len(S_PlayfairAlphabet) : S_PlayfairAlphabet[k] = ac_result[1].val[i]

\* C27, amended: the cleaned form of "TFJJQ" is "TFIIQ", five letters, so
\* apply_cipher("TFJJQ", "KEYWORD", playfair) returns the error result of the
\* odd length, 'Error: Playfair cipher requires even-length text'.
C27_TfjjqIsOddError ==
  TfjjqCall =>
    /\ CleanedText(ac_args[1]) = <<84, 70, 73, 73, 81>>
    /\ ac_result[1] = Ok(S_ErrorPrefix \o S_PlayfairEvenMsg)

\* The call on "TFJJQ" with "KEYWORD" and the method name 'playfair' has
\* returned.
C27_Witness ==
  /\ TfjjqCall
  /\ ac_args[3] = M_playfair
  /\ ac_result[1].exc = "none"

\* The call was playfair_cipher on a ciphertext, with a keyword.
PlayfairRan ==
  /\ ac_args # <<>>
  /\ ac_args[3] = M_playfair
  /\ ac_result # <<>>

\* Playfair decryption of a digraph as C28 words it: letters of one row move
\* one column to the left, letters of one column one row up (both with
\* wrap), and the letters of a rectangle swap their columns.
PlayfairDecryptPair(sq, c1, c2) ==
  IF SquareRow(sq, c1) = SquareRow(sq, c2)
  THEN <<SquareAt(sq, SquareRow(sq, c1), (SquareCol(sq, c1) + 4) % 5),
         SquareAt(sq, SquareRow(sq, c2), (SquareCol(sq, c2) + 4) % 5)>>
  ELSE IF SquareCol(sq, c1) = SquareCol(sq, c2)
  THEN <<SquareAt(sq, (SquareRow(sq, c1) + 4) % 5, SquareCol(sq, c1)),
         SquareAt(sq, (SquareRow(sq, c2) + 4) % 5, SquareCol(sq, c2))>>
  ELSE <<SquareAt(sq, SquareRow(sq, c1), SquareCol(sq, c2)),
         SquareAt(sq, SquareRow(sq, c2), SquareCol(sq, c1))>>

\* C28: for every alphabetic keyword the grid playfair_cipher builds holds
\* each of the 25 letters A-Z without J once, the keyword's letters first,
\* each where it occurs first, J as I; every digraph of the ciphertext is
\* decrypted by the row, column and rectangle rules; and the call returns the
\* text (of an even number of letters, without J and without a digraph of two
\* equal letters) whose Playfair encryption it was given.
C28_PlayfairRoundTrip ==
  PlayfairRan =>
    /\ playfair_grid(str_replace(str_upper(str_join_split(ac_args[2])), 74, 73))
         = KeySquares[ac_args[2]]
    /\ Len(KeySquares[ac_args[2]]) = 25
    /\ {KeySquares[ac_args[2]][k] : k \in 1..25}
         = {S_PlayfairAlphabet[k] : k \in 1..Len(S_PlayfairAlphabet)}
    /\ ac_result[1].exc = "none"
    /\ Len(ac_result[1].val) = Len(ac_args[1])
    /\ \A q \in 1..(Len(ac_args[1]) \div 2) :
         <<ac_result[1].val[2 * q - 1], ac_result[1].val[2 * q]>>
           = PlayfairDecryptPair(KeySquares[ac_args[2]],
                                 ac_args[1][2 * q - 1], ac_args[1][2 * q])
    /\ \A text \in PlayfairTexts :
         (/\ Len(text) = Len(ac_args[1])
          /\ playfair_encrypt(text, KeySquares[ac_args[2]]) = ac_args[1])
           => ac_result[1] = Ok(text)

\* 'BMODZBXDNABEKUDMUIXMMOUVIF'
T_HideTheGoldEncrypted ==
  <<66, 77, 79, 68, 90, 66, 88, 68, 78, 65, 66, 69, 75, 85, 68, 77, 85, 73, 88, 77, 77, 79, 85, 86, 73, 70>>

\* playfair_cipher has returned 'HIDETHEGOLDINTHETREXESTUMP' from its
\* encryption under 'playfair example'.
C28_Witness ==
  /\ PlayfairRan
  /\ ac_args[1] = T_HideTheGoldEncrypted
  /\ ac_args[2] = <<112, 108, 97, 121, 102, 97, 105, 114, 32, 101, 120, 97, 109, 112, 108, 101>>
  /\ ac_result[1] = Ok(T_HideTheGold)

\* The pairs the run has attempted or rejected so far.
PairsHandled ==
  {<<log[i].keyword, log[i].cipher_method>> :
     i \in {j \in 1..Len(log) : log[j].kind \in {"tested", "invalid"}}}

\* C29: the persisted set of tested pairs holds (key, method) pairs only, and
\* never loses one; a run that finishes persists every pair it attempted or
\* rejected; and a pair that is persisted is never attempted again, whatever
\* problem tab and ciphertext the later run is on.
C29_SkipIgnoresCiphertext ==
  [][/\ db_tested_pairs \subseteq db_tested_pairs'
     /\ (pc = "running" /\ pc' = "finished") => PairsHandled \subseteq db_tested_pairs'
     /\ (Len(log') = Len(log) + 1 /\ log'[Len(log')].kind = "tested")
          => <<log'[Len(log')].keyword, log'[Len(log')].cipher_method>> \notin db_tested_pairs]_vars

\* A run on tab B ('Ab!c') has skipped the Caesar key '3', whose result on the
\* cipher text of tab A ('ab') an earlier run has saved.
C29_Witness ==
  /\ tab_name = "B"
  /\ EventsOf("skipped", <<KW_3, M_caesar>>) # {}
  /\ EventsOf("tested", <<KW_3, M_caesar>>) = {}
  /\ \E r \in db_results :
       r.tab_name = "A" /\ r.keyword = KW_3 /\ r.cipher_method = M_caesar

\* C30 as stated: an attempt for which the dispatch reported an error (a
\* validation error or an unexpected one) has one displayed outcome, its
\* pair is in the tested set (and in the saved set once the run has
\* finished, so that later runs skip it), its text was not passed to the
\* evaluation oracle and no result row was saved for it.
C30_ErrorAttemptRecorded ==
  \A i \in 1..Len(displayed) :
    (pc \in {"running", "finished"}
     /\ DispatchReportsError(ciphertext, displayed[i].keyword, displayed[i].cipher_method))
      => /\ Cardinality(RowsOf(<<displayed[i].keyword, displayed[i].cipher_method>>)) = 1
         /\ <<displayed[i].keyword, displayed[i].cipher_method>> \in tested_pairs
         /\ <<displayed[i].keyword, displayed[i].cipher_method>> \notin tested_at_start
         /\ pc = "finished"
              => <<displayed[i].keyword, displayed[i].cipher_method>> \in db_tested_pairs
         /\ \A j \in 1..Len(oracle_calls) : oracle_calls[j] # displayed[i].decrypted_text
         /\ \A r \in db_results :
              ~(/\ r.tab_name = tab_name
                /\ r.keyword = displayed[i].keyword
                /\ r.cipher_method = displayed[i].cipher_method)
====
